---- MODULE Spec2Model ----
(***************************************************************************)
(* Beja dictionary parser: the v5 and v1 entry segmenters                  *)
(* (scripts/02_make_entry_blocks_region_aware_v5.py, ..._region_aware.py), *)
(* the repair / field-extraction pass                                      *)
(* (scripts/03_parse_blocks_to_dictionary_jsonl.py) and the alphabetic     *)
(* order validator (scripts/25_parse_reconstructed_lines_with_alpha_check).*)
(*                                                                         *)
(* Text is a sequence of one-character strings.  Characters outside ASCII  *)
(* are written with stand-ins that occur nowhere in the programs' own      *)
(* character classes:                                                      *)
(*     "~" U+00A0 no-break space      "^" U+200E left-to-right mark        *)
(*     "@" U+0628, "#" U+0627 (Arabic letters)   "%" U+060C (Arabic comma) *)
(* An optional value (Python None or a value) is <<>> or <<value>>; a list  *)
(* computed as `xs or None` is the list itself, None being <<>>.           *)
(* Zipf frequencies are kept in tenths (5.0 is 50).                        *)
(***************************************************************************)
EXTENDS Naturals, Integers, Sequences, FiniteSets, TLC

----------------------------------------------------------------------------
(* Characters and the Python string operations the scripts use *)

\* a sequence given as a function, as a tuple
Tup(f) == f \o <<>>

Str(s) == Tup([i \in 1..Len(s) |-> SubSeq(s, i, i)])

None == <<>>
Some(x) == <<x>>

LowerSeq == Str("abcdefghijklmnopqrstuvwxyz")
UpperSeq == Str("ABCDEFGHIJKLMNOPQRSTUVWXYZ")
Lower == {LowerSeq[i] : i \in 1..Len(LowerSeq)}
Upper == {UpperSeq[i] : i \in 1..Len(UpperSeq)}
Digit == {"0", "1", "2", "3", "4", "5", "6", "7", "8", "9"}
Whitespace == {" ", "~"}
ArabicChar == {"@", "#", "%"}
ArabicLetter == {"@", "#"}
\* \w of the re module: letters of any script, digits, underscore
WordChar == Lower \cup Upper \cup Digit \cup ArabicLetter \cup {"_"}

SetMax(S) == CHOOSE x \in S : \A y \in S : y <= x
SetMin(S) == CHOOSE x \in S : \A y \in S : x <= y

py_lower_char(c) ==
    IF c \in Upper THEN LowerSeq[CHOOSE i \in 1..Len(UpperSeq) : UpperSeq[i] = c] ELSE c

py_lower(s) == Tup([i \in 1..Len(s) |-> py_lower_char(s[i])])

py_contains(s, c) == \E i \in 1..Len(s) : s[i] = c

py_count(s, c) == Cardinality({i \in 1..Len(s) : s[i] = c})

\* sub in s
py_has_sub(s, sub) ==
    \E i \in 1..(Len(s) + 1) :
        /\ i + Len(sub) - 1 <= Len(s)
        /\ \A k \in 1..Len(sub) : s[i + k - 1] = sub[k]

py_endswith(s, suf) ==
    /\ Len(suf) <= Len(s)
    /\ \A k \in 1..Len(suf) : s[Len(s) - Len(suf) + k] = suf[k]

\* s.replace(c, "") for a one-character c
py_remove(s, c) == SelectSeq(s, LAMBDA x : x # c)

\* s.replace(c, d) for one-character c, d
py_replace(s, c, d) == Tup([i \in 1..Len(s) |-> IF s[i] = c THEN d ELSE s[i]])

\* s.lstrip(chars), s.rstrip(chars), s.strip(chars)
py_lstrip(s, C) ==
    SubSeq(s, SetMin({i \in 1..(Len(s) + 1) : i = Len(s) + 1 \/ s[i] \notin C}), Len(s))

py_rstrip(s, C) ==
    SubSeq(s, 1, SetMax({i \in 0..Len(s) : i = 0 \/ s[i] \notin C}))

py_strip(s, C) == py_lstrip(py_rstrip(s, C), C)

\* the elements of a finite set of numbers in increasing order
SortedSeq(S) ==
    Tup([k \in 1..Cardinality(S) |-> CHOOSE x \in S : Cardinality({y \in S : y < x}) = k - 1])

\* the elements of xs at the indexes idxs
pick(xs, idxs) == Tup([k \in 1..Len(idxs) |-> xs[idxs[k]]])

\* the fields of s that start at the indexes starts and run up to the next
\* character of Sep
re_split_fields(s, Sep, starts) ==
    Tup([k \in 1..Len(starts) |->
            SubSeq(s, starts[k],
                   SetMax({j \in starts[k]..Len(s) : \A q \in starts[k]..j : s[q] \notin Sep}))])

\* re.split(r"[Sep]+", s): the fields between maximal runs of separator
\* characters; a leading or trailing run yields an empty first or last field
re_split(s, Sep) ==
    IF s = <<>> THEN << <<>> >>
    ELSE (IF s[1] \in Sep THEN << <<>> >> ELSE <<>>)
         \o re_split_fields(s, Sep,
                SortedSeq({i \in 1..Len(s) : s[i] \notin Sep /\ (i = 1 \/ s[i - 1] \in Sep)}))
         \o (IF s[Len(s)] \in Sep THEN << <<>> >> ELSE <<>>)

\* the fields of s between the indexes at, which hold the separator
py_split_at(s, at) ==
    Tup([k \in 1..(Len(at) + 1) |->
            SubSeq(s, IF k = 1 THEN 1 ELSE at[k - 1] + 1,
                      IF k = Len(at) + 1 THEN Len(s) ELSE at[k] - 1)])

\* s.split(c): every occurrence of c separates two fields
py_split_on(s, c) == py_split_at(s, SortedSeq({i \in 1..Len(s) : s[i] = c}))

\* s.split(c, 1)
py_split_once(s, c) ==
    IF ~py_contains(s, c) THEN <<s>>
    ELSE py_split_at(s, <<SetMin({i \in 1..Len(s) : s[i] = c})>>)

NonEmpty(xs) == SelectSeq(xs, LAMBDA x : x # <<>>)

\* s.split(): split on runs of whitespace, no empty fields
py_split(s) == NonEmpty(re_split(s, Whitespace))

\* sep.join(xs) for a one-character sep
RECURSIVE py_join(_, _)
py_join(xs, sep) ==
    IF xs = <<>> THEN <<>>
    ELSE IF Len(xs) = 1 THEN xs[1]
    ELSE py_join(SubSeq(xs, 1, Len(xs) - 1), sep) \o <<sep>> \o xs[Len(xs)]

\* order-preserving removal of duplicates (the scripts' seen-set loops)
dedupe(xs) == pick(xs, SortedSeq({i \in 1..Len(xs) : \A k \in 1..(i - 1) : xs[k] # xs[i]}))

SelectSeq2(xs, S) == SelectSeq(xs, LAMBDA x : x \in S)

Range(xs) == {xs[i] : i \in 1..Len(xs)}

----------------------------------------------------------------------------
(* Shared vocabularies and the gloss-language frequency lexicon *)

POS_TOKENS == {Str("Adj"), Str("Adv"), Str("Con"), Str("Dem"), Str("Intj"), Str("N"),
               Str("Num"), Str("Phr"), Str("Pps"), Str("Pron"), Str("V")}
REGION_TOKENS == {Str("Er"), Str("Su"), Str("Eg")}
CLASS_TOKENS == {Str("Cush"), Str("Sem")}
DashTokens == {Str("-"), Str("_")}

NEVER_HEADWORDS ==
    {Str("sg"), Str("pl"), Str("pl."), Str("m"), Str("f"), Str("mf"), Str("m."), Str("f."),
     Str("-"), Str("_"), Str("=")}
    \cup POS_TOKENS \cup REGION_TOKENS \cup CLASS_TOKENS

\* wordfreq's English Zipf figures, in tenths, for the words of the modelled
\* texts ("been" and "too" are common English words spelt with a doubled vowel)
WordFreq ==
    (Str("women") :> 53) @@ (Str("water") :> 54) @@ (Str("girls") :> 50)
    @@ (Str("females") :> 43) @@ (Str("custom") :> 46) @@ (Str("going") :> 57)
    @@ (Str("been") :> 63) @@ (Str("too") :> 60) @@ (Str("the") :> 77)

\* zipf_frequency(word, "en"): a word the lexicon does not hold has frequency 0
zipf_frequency(t) == IF t \in DOMAIN WordFreq THEN WordFreq[t] ELSE 0

StripPunct == {".", ",", ";", ":", "!", "?", "\"", "(", ")", "[", "]", "{", "}"}

----------------------------------------------------------------------------
(* 02_make_entry_blocks_region_aware_v5.py: the language arbiter *)

BejaLongVowels == {Str("aa"), Str("ii"), Str("uu"), Str("oo"), Str("ee")}

\* lines 41-45, on the lower-cased token
beja_pattern_hits(t) ==
    (IF \E v \in BejaLongVowels : py_has_sub(t, v) THEN 1 ELSE 0)
    + (IF py_endswith(t, Str("/t")) THEN 1 ELSE 0)
    + (IF py_contains(t, "'") THEN 1 ELSE 0)

beja_strength_score(token) == beja_pattern_hits(py_lower(token))

\* lines 57-59, on the lower-cased, stripped token
zipf_or_zero(t) == IF t = <<>> THEN 0 ELSE zipf_frequency(t)

english_strength_score(token) == zipf_or_zero(py_strip(py_lower(token), StripPunct))

SeqMax(xs) == SetMax(Range(xs))

\* lines 100-109 with the weakest target-language score in place of the strongest
englishy_verdict_min(eng_scores, beja_scores) ==
    IF SeqMax(eng_scores) >= 50 /\ SetMin(Range(beja_scores)) <= 0 THEN TRUE
    ELSE IF Cardinality({i \in 1..Len(eng_scores) : eng_scores[i] >= 45})
                >= SetMax({1, Len(eng_scores) - 0})
            /\ SetMin(Range(beja_scores)) <= 0
         THEN TRUE
    ELSE FALSE

\* lines 100-109: the verdict from the per-token scores
englishy_verdict(eng_scores, beja_scores) ==
    IF SeqMax(eng_scores) >= 50 /\ SeqMax(beja_scores) <= 0 THEN TRUE
    ELSE IF Cardinality({i \in 1..Len(eng_scores) : eng_scores[i] >= 45})
                >= SetMax({1, Len(eng_scores) - 0})
            /\ SeqMax(beja_scores) <= 0
         THEN TRUE
    ELSE FALSE

\* lines 93-109, on the tokens of the candidate
englishy_tokens(tokens) ==
    IF tokens = <<>> THEN FALSE
    ELSE englishy_verdict(Tup([i \in 1..Len(tokens) |-> english_strength_score(tokens[i])]),
                          Tup([i \in 1..Len(tokens) |-> beja_strength_score(tokens[i])]))

is_englishy_headword(hw) == englishy_tokens(py_split(hw))

----------------------------------------------------------------------------
(* 02_make_entry_blocks_region_aware_v5.py: line predicates and repairs *)

\* BEJA_TOKEN_RE = ^[a-z][a-z']*(?:/[a-z])?$
BEJA_TOKEN_RE(t) ==
    /\ Len(t) >= 1
    /\ t[1] \in Lower
    /\ \/ \A k \in 2..Len(t) : t[k] \in Lower \cup {"'"}
       \/ /\ Len(t) >= 3
          /\ t[Len(t) - 1] = "/"
          /\ t[Len(t)] \in Lower
          /\ \A k \in 2..(Len(t) - 2) : t[k] \in Lower \cup {"'"}

ARABIC_RE(s) == \E i \in 1..Len(s) : s[i] \in ArabicChar
LATIN_RE(s) == \E i \in 1..Len(s) : s[i] \in Lower \cup Upper

\* \d{1,4} over the whole of core
digits_1_4(core) == Len(core) \in 1..4 /\ \A i \in 1..Len(core) : core[i] \in Digit

\* PAGE_NUMBER_RE = ^\s*\d{1,4}\s*$
PAGE_NUMBER_RE(line) == digits_1_4(py_strip(line, Whitespace))

normalize_line(line) ==
    py_join(py_split(py_strip(py_remove(py_replace(line, "~", " "), "^"), Whitespace)), " ")

\* LEADING_DIGITS_RE = ^\s*\d+\s*(.*)$ ; group 1, stripped; s1 is the line
\* without its leading whitespace
leading_digits_group(line, s1) ==
    IF s1 # <<>> /\ s1[1] \in Digit THEN py_strip(py_lstrip(s1, Digit), Whitespace) ELSE line

strip_leading_digits(line) == leading_digits_group(line, py_lstrip(line, Whitespace))

should_ignore_line(line) == line = <<>> \/ PAGE_NUMBER_RE(line)

extract_regions_from_line(line) ==
    SelectSeq2(re_split(py_strip(line, Whitespace), Whitespace \cup {"*"}), REGION_TOKENS)

\* lines 145-155, on the non-empty tokens of the line
region_tokens_only(tokens) ==
    /\ tokens # <<>>
    /\ \A i \in 1..Len(tokens) : tokens[i] \in REGION_TOKENS \cup DashTokens
    /\ \E i \in 1..Len(tokens) : tokens[i] \in REGION_TOKENS

is_region_line(line) ==
    region_tokens_only(NonEmpty(re_split(py_strip(line, Whitespace), Whitespace \cup {"*"})))

\* \b after index e of s: exactly one of s[e], s[e+1] is a word character
re_word_boundary(s, e) ==
    (s[e] \in WordChar) # (e + 1 <= Len(s) /\ s[e + 1] \in WordChar)

\* (?:/[a-z])\b right after index e of s
re_slash_suffix(s, e) ==
    /\ e + 2 <= Len(s)
    /\ s[e + 1] = "/"
    /\ s[e + 2] \in Lower
    /\ re_word_boundary(s, e + 2)

\* the end of the match that takes n characters of the run, n = -1 for no match
head_token_pick(s, start, n) ==
    IF n < 0 THEN 0
    ELSE IF re_slash_suffix(s, start + n) THEN start + n + 2
    ELSE start + n

\* the index of the last character of a match of
\*     [a-z] Rest{minRest,} (?:/[a-z])? \b
\* starting at index start of s, as re's backtracking finds it (the longest
\* run first, the optional suffix before its absence); 0 when nothing matches
head_token_end(s, start, Rest, minRest) ==
    IF start > Len(s) \/ start < 1 THEN 0
    ELSE IF s[start] \notin Lower THEN 0
    ELSE head_token_pick(s, start,
             SetMax({-1} \cup
                    {n \in minRest..(Len(s) - start) :
                        /\ \A k \in 1..n : s[start + k] \in Rest
                        /\ \/ re_slash_suffix(s, start + n)
                           \/ re_word_boundary(s, start + n)}))

\* \*(?:m|f|n|mf)[Sep] : the length of the alternative taken, 0 for no match
star_noise_prefix(line, Sep) ==
    IF Len(line) >= 3 /\ line[1] = "*" /\ line[2] \in {"m", "f", "n"} /\ line[3] \in Sep THEN 1
    ELSE IF Len(line) >= 4 /\ line[1] = "*" /\ line[2] = "m" /\ line[3] = "f" /\ line[4] \in Sep
         THEN 2
    ELSE 0

\* groups 1 and 2 for a token that starts at tok and ends at e
star_noise_groups(line, tok, e) ==
    IF e = 0 THEN <<>> ELSE <<SubSeq(line, tok, e), SubSeq(line, e + 1, Len(line))>>

\* the token after the separator run that follows the prefix of length plen
star_noise_token(line, Sep, tok) ==
    IF tok > Len(line) THEN <<>>
    ELSE star_noise_groups(line, tok, head_token_end(line, tok, Lower \cup {"'"}, 0))

\* ^\*(?:m|f|n|mf)[Sep]+([a-z][a-z']*(?:/[a-z])?)\b(.*)$ : <<group 1, group 2>>
\* or <<>> when the line does not match
star_noise_match(line, Sep) ==
    IF star_noise_prefix(line, Sep) = 0 THEN <<>>
    ELSE star_noise_token(line, Sep,
             SetMin({i \in (2 + star_noise_prefix(line, Sep))..(Len(line) + 1) :
                        i = Len(line) + 1 \/ line[i] \notin Sep}))

\* lines 166-167, 171-172: f"{m.group(1)} {m.group(2).lstrip()}".strip()
star_noise_fixed(g) == py_strip(g[1] \o <<" ">> \o py_lstrip(g[2], Whitespace), Whitespace)

\* lines 165-175 on the two matches
star_noise_choice(line, m, m2) ==
    IF m # <<>> THEN star_noise_fixed(m)
    ELSE IF m2 # <<>> THEN star_noise_fixed(m2)
    ELSE line

fix_leading_star_noise(line) ==
    star_noise_choice(line, star_noise_match(line, {" ", "_"}),
                      star_noise_match(line, Whitespace))

looks_like_entry_head_line_strong(line) ==
    IF ~py_contains(line, "*") THEN FALSE
    ELSE IF py_count(line, "*") >= 2 THEN TRUE
    ELSE Range(re_split(line, Whitespace \cup {"*"}))
             \cap (POS_TOKENS \cup CLASS_TOKENS \cup REGION_TOKENS) # {}

\* line 202: bool(ARABIC_RE.search(after) or LATIN_RE.search(after))
has_script_letters(after) == ARABIC_RE(after) \/ LATIN_RE(after)

looks_like_entry_head_line_weak(line, hw) ==
    IF ~py_contains(line, "*") THEN FALSE
    ELSE IF hw \in NEVER_HEADWORDS THEN FALSE
    ELSE IF is_englishy_headword(hw) THEN FALSE
    ELSE has_script_letters(py_split_once(line, "*")[2])

\* the head-zone tokens: what precedes the first "*", split on whitespace
head_zone_toks(line) ==
    NonEmpty(re_split(py_strip(py_split_once(line, "*")[1], Whitespace), Whitespace))

\* lines 225-231 on the tokens without their backslashes: the leading tokens
\* that are target-shaped and not excluded
beja_leading(cleaned) ==
    SubSeq(cleaned, 1,
           SetMax({k \in 0..Len(cleaned) :
                      \A i \in 1..k : BEJA_TOKEN_RE(cleaned[i])
                                      /\ cleaned[i] \notin NEVER_HEADWORDS}))

beja_prefix(toks) == beja_leading(Tup([i \in 1..Len(toks) |-> py_remove(toks[i], "\\")]))

\* lines 234-239 without the arbiter: every candidate is returned
headword_unasked(hw) == [ret |-> Some(hw), out |-> <<>>]

\* lines 234-239: the candidate is returned unless the arbiter rejects it;
\* ret is the value returned, out the candidates reported on stdout
headword_unless_englishy(hw) ==
    IF is_englishy_headword(hw) THEN [ret |-> None, out |-> <<hw>>]
    ELSE [ret |-> Some(hw), out |-> <<>>]

\* lines 243-247: the repair with the last good headword
headword_repair(lgh, t0) ==
    IF t0 \notin NEVER_HEADWORDS /\ ~is_englishy_headword(t0)
    THEN [ret |-> Some(lgh[1] \o <<" ">> \o t0), out |-> <<>>]
    ELSE [ret |-> None, out |-> <<t0>>]

\* lines 216-249 on the head-zone tokens and their leading target-shaped part
headword_from_tokens(toks, beja_toks, lgh) ==
    IF toks = <<>> THEN [ret |-> None, out |-> <<>>]
    ELSE IF toks[1] \in NEVER_HEADWORDS THEN [ret |-> None, out |-> <<>>]
    ELSE IF beja_toks # <<>>
         THEN headword_unless_englishy(
                  py_join(SubSeq(beja_toks, 1, SetMin({3, Len(beja_toks)})), " "))
    ELSE IF lgh # None /\ lgh[1] # <<>> /\ BEJA_TOKEN_RE(toks[1])
         THEN headword_repair(lgh, py_remove(toks[1], "\\"))
    ELSE [ret |-> None, out |-> <<>>]

headword_from_zone(toks, lgh) == headword_from_tokens(toks, beja_prefix(toks), lgh)

\* parse_multiword_headword with what it prints: ret is the headword (an
\* optional string), out the candidates reported on stdout as rejected
\* ("2Rejecting Englishy headword:", "3Rejecting Englishy headword repair:")
parse_multiword_headword_run(line, lgh) ==
    IF ~py_contains(line, "*") THEN [ret |-> None, out |-> <<>>]
    ELSE headword_from_zone(head_zone_toks(line), lgh)

parse_multiword_headword(line, lgh) == parse_multiword_headword_run(line, lgh).ret

parse_multiword_headword_prints(line, lgh) == parse_multiword_headword_run(line, lgh).out

----------------------------------------------------------------------------
(* 02_make_entry_blocks_region_aware_v5.py: main, the segmentation loop *)

\* Bounds of the model: pages read, and lines read over all pages
MaxPages == 2
MaxLines == 3

VARIABLES
    pc,                  \* where the run is: "between" pages, "inpage", "segmented", ...
    pages,               \* per page read so far, its normalized non-ignored lines consumed
    page_num,            \* number of the page being read
    ln_idx,              \* 1-based index of the last line consumed on this page
    current,             \* the open block (optional)
    current_regions,     \* region codes collected for the open block
    last_good_headword,  \* optional
    blocks_out,          \* the blocks written to OUT_PATH, in order
    printed,             \* candidates reported on stdout as rejected by the arbiter
    issues,              \* the issue log (OUT_ISSUES); the segmenters never write it
    entries,             \* repair pass: the entries accepted so far
    blk_idx,             \* repair pass: number of blocks read from the block file
    kept,                \* order validator: the entries kept
    last_good_entry,     \* order validator: optional
    last_initial,        \* order validator: optional letter
    consecutive_rejects, \* order validator
    errors_out,          \* order validator: the error log (OUT_ERRORS)
    candidate,           \* arbiter: the headword candidate under test
    englishy,            \* arbiter: optional verdict of is_englishy_headword
    probably_english,    \* arbiter: optional verdict of looks_probably_english_headword
    line_in,             \* line functions: the raw line under test
    line_fixed,          \* line functions: optional text left by lines 294-303
    line_hw,             \* line functions: optional outcome of parse_multiword_headword
    last_flushed         \* English-to-Beja blocker: the flushed block awaiting its write (optional)

repvars == <<issues, entries, blk_idx>>
ovvars == <<kept, last_good_entry, last_initial, consecutive_rejects, errors_out>>
linevars == <<line_in, line_fixed, line_hw>>
ebvars == <<last_flushed>>
arbvars == <<candidate, englishy, probably_english, linevars, ebvars>>

\* the raw page lines the model feeds the segmenters
RawLines ==
    {Str(" aab  *~water * Er^"),
     Str("aada * custom"),
     Str("22 daatiya * going"),
     Str("daatiya * going * Phr"),
     Str("been aab aab aab * water"),
     Str("women * females"),
     Str("women * girls Su"),
     Str("* Er Su"),
     Str("Er"),
     Str("pl aaba"),
     Str("pl * Su * x"),
     Str("*m_aagil * N"),
     Str(" 12 ")}

SegState == [current |-> current, current_regions |-> current_regions,
             blocks_out |-> blocks_out, last_good_headword |-> last_good_headword,
             printed |-> printed]

\* lines 300-303: digit junk and leading '*m_' noise fixes
v5_fix_line(raw) ==
    fix_leading_star_noise(
        IF raw # <<>> /\ raw[1] \in Digit THEN strip_leading_digits(raw) ELSE raw)

\* line 306, on line.split()
first_of(toks) == IF toks # <<>> THEN toks[1] ELSE <<>>

first_tok(line) == first_of(py_split(line))

\* line 199: looks_like_entry_head_line_weak reports the candidate the arbiter
\* rejects
weak_prints(hw) ==
    IF hw \notin NEVER_HEADWORDS /\ is_englishy_headword(hw) THEN <<hw>> ELSE <<>>

\* lines 323-325: the headword when the line is accepted as an entry start
\* (else None) and what the tests print; pm is the outcome of
\* parse_multiword_headword; looks_like_entry_head_line_weak is called only
\* when the strong test fails
v5_entry_test(line, pm) ==
    IF pm.ret = None \/ pm.ret[1] = <<>> THEN [hw |-> None, said |-> pm.out]
    ELSE IF looks_like_entry_head_line_strong(line) THEN [hw |-> pm.ret, said |-> pm.out]
    ELSE [hw |-> IF looks_like_entry_head_line_weak(line, pm.ret[1]) THEN pm.ret ELSE None,
          said |-> pm.out \o weak_prints(pm.ret[1])]

\* the facts of a line: its normalized text, its repaired text, the tests made
\* on it, and t, the outcome of the entry-start test
v5_facts_record(norm, line, t) ==
    [norm |-> norm,
     ignored |-> should_ignore_line(norm),
     line |-> line,
     never |-> first_tok(line) \in NEVER_HEADWORDS,
     region_line |-> is_region_line(line),
     regions |-> extract_regions_from_line(line),
     star |-> py_contains(line, "*"),
     hw |-> t.hw,
     said |-> t.said]

v5_facts_of_line(norm, line, lgh) ==
    v5_facts_record(norm, line,
        IF py_contains(line, "*")
        THEN v5_entry_test(line, parse_multiword_headword_run(line, lgh))
        ELSE [hw |-> None, said |-> <<>>])

\* What lines 294-325 compute from the text of a raw line and the last good
\* headword
v5_line_facts(raw, lgh) ==
    v5_facts_of_line(normalize_line(raw), v5_fix_line(normalize_line(raw)), lgh)

\* flush that leaves current_regions as it is
flush_keep_regions(st, end_line) ==
    IF st.current = None THEN st
    ELSE [st EXCEPT
             !.current = None,
             !.blocks_out = Append(@,
                 [page |-> st.current[1].page,
                  start_line |-> st.current[1].start_line,
                  headword_guess |-> st.current[1].headword_guess,
                  lines |-> st.current[1].lines,
                  end_line |-> end_line,
                  regions_guess |-> dedupe(st.current_regions)])]

\* flush(end_line): write the open block, if any, and close it
flush(st, end_line) ==
    IF st.current = None THEN st
    ELSE [st EXCEPT
             !.current = None,
             !.current_regions = <<>>,
             !.blocks_out = Append(@,
                 [page |-> st.current[1].page,
                  start_line |-> st.current[1].start_line,
                  headword_guess |-> st.current[1].headword_guess,
                  lines |-> st.current[1].lines,
                  end_line |-> end_line,
                  regions_guess |-> dedupe(st.current_regions)])]

\* current["lines"].append(line) without the regions of the line
append_line_no_regions(st, f) ==
    [st EXCEPT !.current = <<[@[1] EXCEPT !.lines = Append(@, f.line)]>>]

\* current["lines"].append(line); current_regions.extend(...)
append_line(st, f) ==
    [st EXCEPT !.current = <<[@[1] EXCEPT !.lines = Append(@, f.line)]>>,
               !.current_regions = @ \o f.regions]

\* open_new that numbers the new block from the line before
open_new_prev_line(st, f, idx, page) ==
    [st EXCEPT
        !.current = Some([page |-> page, start_line |-> idx - 1,
                          headword_guess |-> f.hw[1], lines |-> <<f.line>>]),
        !.current_regions = @ \o f.regions,
        !.last_good_headword = f.hw]

\* lines 330-332: the line becomes the open block
open_new(st, f, idx, page) ==
    [st EXCEPT
        !.current = Some([page |-> page, start_line |-> idx,
                          headword_guess |-> f.hw[1], lines |-> <<f.line>>]),
        !.current_regions = @ \o f.regions,
        !.last_good_headword = f.hw]

\* lines 334-336 without the flush
flush_if_regions_never(st, f, idx) == st

\* lines 334-336: a line that carries a region code ends its block at once
flush_if_regions(st, f, idx) == IF f.regions # <<>> THEN flush(st, idx) ELSE st

\* open_block without the flush of the block that is still open
open_block_no_flush(st, f, idx, page) ==
    flush_if_regions(open_new(st, f, idx, page), f, idx)

\* lines 326-336: close the open block on the previous line, open the new one,
\* close it at once when the line carries a region code
open_block(st, f, idx, page) ==
    flush_if_regions(open_new(flush(st, idx - 1), f, idx, page), f, idx)

\* lines 338-345: the line continues the open block, or is dropped
continuation(st, f, idx) ==
    IF st.current # None
    THEN IF f.star /\ f.regions # <<>>
         THEN flush(append_line(st, f), idx)
         ELSE append_line(st, f)
    ELSE st

\* what the entry-start tests print goes to stdout
say(st, f) == [st EXCEPT !.printed = @ \o f.said]

\* lines 322-345: try to start a new entry (strong or weak), else continue
start_or_continue(st, f, idx, page) ==
    IF f.hw # None THEN open_block(say(st, f), f, idx, page)
    ELSE continuation(say(st, f), f, idx)

\* lines 297-345 without the test of the first token (lines 305-313)
v5_process_line_no_exclusion(st, f, idx, page) ==
    IF st.current # None /\ f.region_line
    THEN flush(append_line(st, f), idx)
    ELSE start_or_continue(st, f, idx, page)

\* lines 297-345 when a region-only line is appended and the block stays open
v5_process_line_region_stays_open(st, f, idx, page) ==
    IF f.never
    THEN IF st.current # None THEN append_line(st, f) ELSE st
    ELSE IF st.current # None /\ f.region_line
    THEN append_line(st, f)
    ELSE start_or_continue(st, f, idx, page)

\* lines 297-345: one pass of the loop body over line number idx of the page
v5_process_line(st, f, idx, page) ==
    IF f.never
    THEN IF st.current # None
         THEN IF f.region_line THEN flush(append_line(st, f), idx)
              ELSE append_line(st, f)
         ELSE st
    ELSE IF st.current # None /\ f.region_line
    THEN flush(append_line(st, f), idx)
    ELSE start_or_continue(st, f, idx, page)

\* the headwords the pages of the model can leave in last_good_headword, and
\* the facts of every raw line under each of them
V5Headwords0 == {None} \cup {v5_line_facts(raw, None).hw : raw \in RawLines}
V5Headwords == V5Headwords0 \cup {v5_line_facts(raw, h).hw : raw \in RawLines, h \in V5Headwords0}
V5Facts == [raw \in RawLines |-> [h \in V5Headwords |-> v5_line_facts(raw, h)]]

\* lines consumed so far over all pages
TotalLines ==
    Cardinality(UNION {{<<p, i>> : i \in 1..Len(pages[p])} : p \in 1..Len(pages)})

segvars == <<pc, pages, page_num, ln_idx, current, current_regions,
             last_good_headword, blocks_out, printed>>

InitSeg ==
    /\ pc = "between"
    /\ pages = <<>>
    /\ page_num = 0
    /\ ln_idx = 0
    /\ current = None
    /\ current_regions = <<>>
    /\ last_good_headword = None
    /\ blocks_out = <<>>
    /\ printed = <<>>

\* line 288-295: the next page file is opened and its lines are read
V5OpenPage ==
    /\ pc = "between"
    /\ page_num < MaxPages
    /\ pc' = "inpage"
    /\ page_num' = page_num + 1
    /\ pages' = Append(pages, <<>>)
    /\ ln_idx' = 0
    /\ UNCHANGED <<current, current_regions, last_good_headword, blocks_out, printed,
                   repvars, ovvars, arbvars>>

\* the segmenter's variables after a step that leaves it in state st
SegBecomes(st) ==
    /\ current' = st.current
    /\ current_regions' = st.current_regions
    /\ blocks_out' = st.blocks_out
    /\ last_good_headword' = st.last_good_headword
    /\ printed' = st.printed

\* lines 294-345: the next line of the page that survives the ignore filter
V5Line(raw) ==
    /\ pc = "inpage"
    /\ TotalLines < MaxLines
    /\ \E f \in {V5Facts[raw][last_good_headword]} :
          /\ ~f.ignored
          /\ SegBecomes(v5_process_line(SegState, f, ln_idx + 1, page_num))
          /\ pages' = [pages EXCEPT ![page_num] = Append(@, f.norm)]
    /\ ln_idx' = ln_idx + 1
    /\ UNCHANGED <<pc, page_num, repvars, ovvars, arbvars>>

\* the page boundary without its flush
V5PageEndNoFlush ==
    /\ pc = "inpage"
    /\ pc' = "between"
    /\ UNCHANGED <<pages, page_num, ln_idx, current, current_regions, last_good_headword,
                   blocks_out, printed, repvars, ovvars, arbvars>>

\* lines 347-349: page boundary
V5PageEnd ==
    /\ pc = "inpage"
    /\ SegBecomes(flush(SegState, 0))
    /\ pc' = "between"
    /\ UNCHANGED <<pages, page_num, ln_idx, repvars, ovvars, arbvars>>

\* line 351: the page loop is over
V5Finish ==
    /\ pc = "between"
    /\ pc' = "segmented"
    /\ UNCHANGED <<pages, page_num, ln_idx, current, current_regions,
                   last_good_headword, blocks_out, printed, repvars, ovvars, arbvars>>

NextV5 ==
    \/ V5OpenPage
    \/ \E raw \in RawLines : V5Line(raw)
    \/ V5PageEnd
    \/ V5Finish

vars == <<segvars, repvars, ovvars, arbvars>>

\* 03_parse_blocks_to_dictionary_jsonl.py lines 245-248, before any block is read
InitRepairVars ==
    /\ issues = <<>>
    /\ entries = <<>>
    /\ blk_idx = 0

\* 25_parse_reconstructed_lines_with_alpha_check.py lines 168-173
InitOVVars ==
    /\ kept = <<>>
    /\ last_good_entry = None
    /\ last_initial = None
    /\ consecutive_rejects = 0
    /\ errors_out = <<>>

\* no candidate has been put to the arbiters
InitArbVars ==
    /\ candidate = <<>>
    /\ englishy = None
    /\ probably_english = None
    /\ line_in = <<>>
    /\ line_fixed = None
    /\ line_hw = None
    /\ last_flushed = None

InitV5 == InitSeg /\ InitRepairVars /\ InitOVVars /\ InitArbVars

SpecV5 == InitV5 /\ [][NextV5]_vars

----------------------------------------------------------------------------
(* 02_make_entry_blocks_region_aware.py: the segmenter build_all.py runs.   *)
(* Its normalize_line, should_ignore_line and flush are the v5 ones.        *)

V1_REGION_TOKENS == REGION_TOKENS \cup {Str("Ar.")}

\* DIGIT_START_RE = ^\s*\d
DIGIT_START_RE(line) == digits_1_4(SubSeq(py_lstrip(line, Whitespace), 1, 1))

GLOSS_START_STOPLIST ==
    {Str("woman"), Str("women"), Str("man"), Str("men"), Str("the"), Str("a"), Str("an"),
     Str("of"), Str("and"), Str("or"), Str("to"), Str("from"), Str("with"), Str("in"),
     Str("on"), Str("at"), Str("maturity")}

\* HEADWORD_RE = ^(?P<hw>[a-z][a-z'\\]+(?:/[a-z])?)\b : the end of group hw, 0
\* when the line does not match
HEADWORD_RE(line) == head_token_end(line, 1, Lower \cup {"'", "\\"}, 1)

normalize_headword(hw) == py_strip(py_remove(py_remove(hw, "\\"), " "), Whitespace)

v1_extract_regions_from_line(line) ==
    SelectSeq2(re_split(py_strip(line, Whitespace), Whitespace \cup {"*"}), V1_REGION_TOKENS)

\* lines 53-64, on the non-empty tokens of the line
v1_region_tokens_only(tokens) ==
    /\ tokens # <<>>
    /\ \A i \in 1..Len(tokens) : tokens[i] \in V1_REGION_TOKENS \cup DashTokens
    /\ \E i \in 1..Len(tokens) : tokens[i] \in V1_REGION_TOKENS

v1_is_region_line(line) ==
    v1_region_tokens_only(NonEmpty(re_split(py_strip(line, Whitespace), Whitespace \cup {"*"})))

looks_like_entry_start(line, hw) ==
    IF hw \in GLOSS_START_STOPLIST THEN FALSE
    ELSE IF ~py_contains(line, "*") THEN FALSE
    ELSE IF py_count(line, "*") < 1 THEN FALSE
    ELSE TRUE

\* lines 154-158: the headword when the line is taken as an entry start, else
\* None; e is the end of the HEADWORD_RE match
v1_entry_head(line, e) ==
    IF e = 0 THEN None
    ELSE IF looks_like_entry_start(line, normalize_headword(SubSeq(line, 1, e)))
         THEN Some(normalize_headword(SubSeq(line, 1, e)))
    ELSE None

\* the facts of a normalized line
v1_facts_of_line(line) ==
    [norm |-> line,
     ignored |-> should_ignore_line(line),
     line |-> line,
     digit |-> DIGIT_START_RE(line),
     star |-> py_contains(line, "*"),
     region_line |-> v1_is_region_line(line),
     regions |-> v1_extract_regions_from_line(line),
     hw |-> v1_entry_head(line, HEADWORD_RE(line))]

v1_line_facts(raw) == v1_facts_of_line(normalize_line(raw))

\* lines 164-170: the line becomes the open block
v1_open_new(st, f, idx, page) ==
    [st EXCEPT
        !.current = Some([page |-> page, start_line |-> idx,
                          headword_guess |-> f.hw[1], lines |-> <<f.line>>]),
        !.current_regions = @ \o f.regions]

\* lines 161-174
v1_open_block(st, f, idx, page) ==
    flush_if_regions(v1_open_new(flush(st, idx - 1), f, idx, page), f, idx)

\* lines 137-184: one pass of the loop body over line number idx of the page
v1_process_line(st, f, idx, page) ==
    IF f.digit
    THEN IF st.current # None /\ f.star
         THEN IF f.region_line THEN flush(append_line(st, f), idx)
              ELSE append_line(st, f)
         ELSE st
    ELSE IF st.current # None /\ f.region_line
    THEN flush(append_line(st, f), idx)
    ELSE IF f.hw # None THEN v1_open_block(st, f, idx, page)
    ELSE IF st.current # None THEN append_line(st, f)
    ELSE st

V1Facts == [raw \in RawLines |-> v1_line_facts(raw)]

\* lines 126-133: the next page file is opened and its lines are read; a
\* block left open by the previous page stays open
V1OpenPage ==
    /\ pc = "between"
    /\ page_num < MaxPages
    /\ pc' = "inpage"
    /\ page_num' = page_num + 1
    /\ pages' = Append(pages, <<>>)
    /\ ln_idx' = 0
    /\ UNCHANGED <<current, current_regions, last_good_headword, blocks_out, printed,
                   repvars, ovvars, arbvars>>

\* lines 135-184: the next line of the page that survives the ignore filter
V1Line(raw) ==
    /\ pc = "inpage"
    /\ TotalLines < MaxLines
    /\ \E f \in {V1Facts[raw]} :
          /\ ~f.ignored
          /\ SegBecomes(v1_process_line(SegState, f, ln_idx + 1, page_num))
          /\ pages' = [pages EXCEPT ![page_num] = Append(@, f.norm)]
    /\ ln_idx' = ln_idx + 1
    /\ UNCHANGED <<pc, page_num, repvars, ovvars, arbvars>>

\* line 135: the lines of the page are exhausted; the loop over pages goes on
V1PageEnd ==
    /\ pc = "inpage"
    /\ pc' = "between"
    /\ UNCHANGED <<pages, page_num, ln_idx, current, current_regions, last_good_headword,
                   blocks_out, printed,
                   repvars, ovvars, arbvars>>

\* lines 186-190: flush at EOF
V1Finish ==
    /\ pc = "between"
    /\ SegBecomes(flush(SegState, 0))
    /\ pc' = "segmented"
    /\ UNCHANGED <<pages, page_num, ln_idx, repvars, ovvars, arbvars>>

NextV1 ==
    \/ V1OpenPage
    \/ \E raw \in RawLines : V1Line(raw)
    \/ V1PageEnd
    \/ V1Finish

SpecV1 == InitV5 /\ [][NextV1]_vars

----------------------------------------------------------------------------
(* 03_parse_blocks_to_dictionary_jsonl.py: field extraction *)

GENDER_TOKENS == {Str("m"), Str("f"), Str("mf")}
NUMBER_TOKENS == {Str("sg"), Str("pl"), Str("pl.")}

norm(s) == py_strip(py_join(py_split(py_replace(py_remove(s, "^"), "~", " ")), " "), Whitespace)

\* [p.strip() for p in parts]
strip_each(parts) == Tup([i \in 1..Len(parts) |-> py_strip(parts[i], Whitespace)])

norm_each(xs) == Tup([i \in 1..Len(xs) |-> norm(xs[i])])

tokenize_star_text(lines) ==
    NonEmpty(strip_each(py_split_on(norm(py_join(lines, " ")), "*")))

\* the class [\u0600-\u06FF\s\u060C\u061B\(\)\-]
ArabicChunkChar == ArabicChar \cup Whitespace \cup {"(", ")", "-"}

\* re.findall(r"[\u0600-\u06FF][...]*", text) with that class: a match
\* starts at an Arabic character that no earlier match has swallowed and
\* runs as far as the class allows
arabic_chunks_from(text, starts) ==
    Tup([k \in 1..Len(starts) |->
            SubSeq(text, starts[k],
                   SetMax({j \in starts[k]..Len(text) :
                              \A q \in starts[k]..j : text[q] \in ArabicChunkChar}))])

arabic_chunks_of(text) ==
    arabic_chunks_from(text,
        SortedSeq({i \in 1..Len(text) :
                      /\ text[i] \in ArabicChar
                      /\ ~\E k \in 1..(i - 1) :
                            /\ text[k] \in ArabicChar
                            /\ \A q \in k..(i - 1) : text[q] \in ArabicChunkChar}))

extract_arabic_chunks(lines) ==
    dedupe(NonEmpty(norm_each(arabic_chunks_of(norm(py_join(lines, " "))))))

\* t.strip(".,;:!?'\"()[]{}<>")
TagStripChars == StripPunct \cup {"'", "<", ">"}

strip_tag_each(xs) == Tup([i \in 1..Len(xs) |-> py_strip(xs[i], TagStripChars)])

normalize_tokens(tokens) == NonEmpty(strip_tag_each(norm_each(tokens)))

english_zipf(tok) == zipf_or_zero(py_strip(py_lower(tok), StripPunct))

\* lines 77-80, on the lower-cased token: the signals it adds to beja_signals
beja_signals_of(tl) ==
    (IF \E v \in BejaLongVowels : py_has_sub(tl, v) THEN 1 ELSE 0)
    + (IF py_contains(tl, "'") \/ py_endswith(tl, Str("/t")) THEN 1 ELSE 0)

\* the sum of the numbers of a sequence
RECURSIVE SumSeq(_)
SumSeq(xs) == IF xs = <<>> THEN 0 ELSE xs[1] + SumSeq(Tail(xs))

\* lines 83-88: the verdict from the scores and the signal count
probably_english_verdict(eng_scores, beja_signals) ==
    IF SeqMax(eng_scores) >= 50 /\ beja_signals = 0 THEN TRUE
    ELSE IF Cardinality({i \in 1..Len(eng_scores) : eng_scores[i] >= 45}) >= Len(eng_scores)
            /\ beja_signals = 0
         THEN TRUE
    ELSE FALSE

\* lines 70-88, on the tokens of the candidate
probably_english_tokens(toks) ==
    IF toks = <<>> THEN FALSE
    ELSE probably_english_verdict(
             Tup([i \in 1..Len(toks) |-> english_zipf(toks[i])]),
             SumSeq(Tup([i \in 1..Len(toks) |-> beja_signals_of(py_lower(toks[i]))])))

looks_probably_english_headword(hw) == probably_english_tokens(py_split(hw))

\* the last token of tokens that is in S (an optional value)
last_in(tokens, S) ==
    IF \E i \in 1..Len(tokens) : tokens[i] \in S
    THEN Some(tokens[SetMax({i \in 1..Len(tokens) : tokens[i] \in S})])
    ELSE None

parse_tags(tokens) ==
    [pos |-> dedupe(SelectSeq2(tokens, POS_TOKENS)),
     regions |-> dedupe(SelectSeq2(tokens, REGION_TOKENS)),
     class |-> last_in(tokens, CLASS_TOKENS),
     gender |-> last_in(tokens, GENDER_TOKENS),
     number |-> last_in(tokens, NUMBER_TOKENS),
     nominalized_verb |->
         \E i \in 1..Len(tokens) :
             /\ tokens[i] \notin POS_TOKENS \cup REGION_TOKENS \cup CLASS_TOKENS
                                 \cup GENDER_TOKENS \cup NUMBER_TOKENS
             /\ tokens[i] = Str("N")
             /\ Str("V") \in Range(tokens)]

\* line 142: the tokens that make a field a pure-tag field
TagLikeTokens ==
    POS_TOKENS \cup REGION_TOKENS \cup CLASS_TOKENS \cup GENDER_TOKENS \cup NUMBER_TOKENS
    \cup DashTokens \cup {Str("="), Str("Ar.")}

\* lines 137-151 on a normalized field f and its tokens: TRUE when the field
\* is appended to glosses
gloss_field_kept(f, toks) ==
    IF f = <<>> THEN FALSE
    ELSE IF toks # <<>> /\ \A i \in 1..Len(toks) : toks[i] \in TagLikeTokens THEN FALSE
    ELSE IF LATIN_RE(f) /\ ~ARABIC_RE(f)
         THEN ~(Len(toks) <= 2
                /\ \E i \in 1..Len(toks) : toks[i] \in REGION_TOKENS \cup POS_TOKENS)
    ELSE FALSE

gloss_field_ok(f) == gloss_field_kept(f, normalize_tokens(re_split(f, Whitespace)))

\* lines 153-160 on the glosses collected
gloss_dedupe(glosses) ==
    dedupe(NonEmpty(Tup([i \in 1..Len(glosses) |-> py_strip(norm(glosses[i]), {",", ";"})])))

extract_english_gloss(fields) ==
    gloss_dedupe(SelectSeq(norm_each(fields), gloss_field_ok))

\* line 212: [norm(l) for l in block["lines"] if norm(l)]
raw_lines_of(lines) == NonEmpty(norm_each(lines))

\* lines 218-240: the entry, from the block, its normalized lines, their
\* star-separated fields and the tags found in them
entry_from_tags(block, raw_lines, fields, tags) ==
    [headword |-> norm(block.headword_guess),
     headword_parts |-> IF block.headword_guess # <<>>
                        THEN Some(py_split(block.headword_guess)) ELSE None,
     gloss_en |-> extract_english_gloss(IF Len(fields) > 1 THEN Tail(fields) ELSE <<>>),
     gloss_ar |-> extract_arabic_chunks(raw_lines),
     pos |-> tags.pos,
     gender |-> tags.gender,
     number |-> tags.number,
     class |-> tags.class,
     nominalized_verb |-> tags.nominalized_verb,
     regions |-> IF tags.regions # <<>> THEN tags.regions ELSE block.regions_guess,
     raw |-> raw_lines,
     source |-> [page |-> block.page, start_line |-> block.start_line,
                 end_line |-> block.end_line]]

entry_from_fields(block, raw_lines, fields) ==
    entry_from_tags(block, raw_lines, fields,
        parse_tags(normalize_tokens(re_split(py_join(fields, " "), Whitespace))))

entry_from_raw(block, raw_lines) ==
    entry_from_fields(block, raw_lines, tokenize_star_text(raw_lines))

parse_block_to_entry(block) == entry_from_raw(block, raw_lines_of(block.lines))

\* lines 174-204 without the test of the line adjacency (lines 191-192)
repair_applies_any_line(entry, prev) ==
    /\ prev # None
    /\ ~py_contains(entry.headword, " ")
    /\ BEJA_TOKEN_RE(entry.headword)
    /\ entry.pos = <<Str("Phr")>>
    /\ ~py_contains(prev[1].headword, " ")
    /\ prev[1].headword # <<>>
    /\ entry.source.page = prev[1].source.page
    /\ ~(entry.regions # <<>> /\ prev[1].regions # <<>> /\ entry.regions # prev[1].regions)

\* lines 174-204 without the test of the previous headword (lines 186-187)
repair_applies_multiword_prev(entry, prev) ==
    /\ prev # None
    /\ ~py_contains(entry.headword, " ")
    /\ BEJA_TOKEN_RE(entry.headword)
    /\ entry.pos = <<Str("Phr")>>
    /\ prev[1].headword # <<>>
    /\ entry.source.page = prev[1].source.page
    /\ entry.source.start_line = prev[1].source.end_line + 1
    /\ ~(entry.regions # <<>> /\ prev[1].regions # <<>> /\ entry.regions # prev[1].regions)

\* lines 174-204: TRUE when the repair applies
repair_applies(entry, prev) ==
    /\ prev # None
    /\ ~py_contains(entry.headword, " ")
    /\ BEJA_TOKEN_RE(entry.headword)
    /\ entry.pos = <<Str("Phr")>>
    /\ ~py_contains(prev[1].headword, " ")
    /\ prev[1].headword # <<>>
    /\ entry.source.page = prev[1].source.page
    /\ entry.source.start_line = prev[1].source.end_line + 1
    /\ ~(entry.regions # <<>> /\ prev[1].regions # <<>> /\ entry.regions # prev[1].regions)

\* lines 207-208: the entry after the repair
repair_missing_prefix(entry, prev) ==
    IF repair_applies(entry, prev)
    THEN [entry EXCEPT
             !.headword = prev[1].headword \o <<" ">> \o entry.headword,
             !.headword_parts = Some(<<prev[1].headword, entry.headword>>)]
    ELSE entry

\* lines 261-268: the block the merged entry is parsed from again
merged_block(prev) ==
    [headword_guess |-> prev.headword,
     lines |-> prev.raw,
     page |-> prev.source.page,
     start_line |-> prev.source.start_line,
     end_line |-> prev.source.end_line,
     regions_guess |-> prev.regions]

\* lines 270-272 without the test: every field of merged replaces prev's
refresh_from_all(prev, merged) ==
    [prev EXCEPT
        !.gloss_en = merged.gloss_en,
        !.gloss_ar = merged.gloss_ar,
        !.pos = merged.pos,
        !.gender = merged.gender,
        !.number = merged.number,
        !.class = merged.class,
        !.regions = merged.regions,
        !.nominalized_verb = merged.nominalized_verb]

\* lines 270-272: the fields of merged that are not None replace prev's
refresh_from(prev, merged) ==
    [prev EXCEPT
        !.gloss_en = IF merged.gloss_en # None THEN merged.gloss_en ELSE @,
        !.gloss_ar = IF merged.gloss_ar # None THEN merged.gloss_ar ELSE @,
        !.pos = IF merged.pos # None THEN merged.pos ELSE @,
        !.gender = IF merged.gender # None THEN merged.gender ELSE @,
        !.number = IF merged.number # None THEN merged.number ELSE @,
        !.class = IF merged.class # None THEN merged.class ELSE @,
        !.regions = IF merged.regions # None THEN merged.regions ELSE @,
        !.nominalized_verb = merged.nominalized_verb]

\* line 259: prev_entry["raw"].extend(entry["raw"])
extend_raw(prev, entry) == [prev EXCEPT !.raw = @ \o entry.raw]

\* lines 259-272: the previous entry after the orphan's lines are merged in
merge_into(prev) == refresh_from(prev, parse_block_to_entry(merged_block(prev)))

\* prev_entry: the entry accepted last, which is the last element of entries
prev_entry == IF entries = <<>> THEN None ELSE Some(entries[Len(entries)])

\* lines 274-279
merged_continuation_issue(entry, prev) ==
    [type |-> "merged_continuation",
     dropped_headword |-> entry.headword,
     into_headword |-> prev.headword,
     source |-> entry.source]

\* lines 281-285
dropped_orphan_issue(block) ==
    [type |-> "dropped_orphan_block",
     reason |-> "english_or_missing_headword_and_no_previous",
     block |-> block]

\* lines 290-294
repaired_prefix_issue(entry) ==
    [type |-> "repaired_subentry_prefix",
     new_headword |-> entry.headword,
     source |-> entry.source]

\* line 257 without the arbiter: only a missing headword makes an orphan
is_orphan_missing_only(entry) == entry.headword = <<>>

\* line 257: the entry is an orphan
is_orphan(entry) == entry.headword = <<>> \/ looks_probably_english_headword(entry.headword)

\* Bound of the repair pass taken alone: blocks in the block file
MaxBlocks == 3

\* lines 258-286: the orphan is merged into the previous entry, or dropped
RepairOrphan(block, entry) ==
    IF entries # <<>>
    THEN \E merged \in {merge_into(extend_raw(entries[Len(entries)], entry))} :
            /\ entries' = [entries EXCEPT ![Len(entries)] = merged]
            /\ issues' = Append(issues, merged_continuation_issue(entry, merged))
    ELSE /\ issues' = Append(issues, dropped_orphan_issue(block))
         /\ UNCHANGED entries

\* lines 289-297: the entry is accepted, after the missing-prefix repair
RepairAccept(entry) ==
    \E fixed \in {repair_missing_prefix(entry, prev_entry)} :
        /\ entries' = Append(entries, fixed)
        /\ issues' = IF repair_applies(entry, prev_entry)
                     THEN Append(issues, repaired_prefix_issue(fixed))
                     ELSE issues

\* lines 251-297: one pass of the loop over the block file
RepairBlock ==
    /\ pc = "segmented"
    /\ blk_idx < Len(blocks_out)
    /\ \E block \in {blocks_out[blk_idx + 1]} :
          \E entry \in {parse_block_to_entry(block)} :
              IF is_orphan(entry) THEN RepairOrphan(block, entry) ELSE RepairAccept(entry)
    /\ blk_idx' = blk_idx + 1
    /\ UNCHANGED <<segvars, ovvars, arbvars>>

\* lines 299-312: the block file is exhausted; the outputs are written
RepairFinish ==
    /\ pc = "segmented"
    /\ blk_idx = Len(blocks_out)
    /\ pc' = "repaired"
    /\ UNCHANGED <<pages, page_num, ln_idx, current, current_regions, last_good_headword,
                   blocks_out, printed, repvars, ovvars, arbvars>>

NextRepair == RepairBlock \/ RepairFinish

\* the blocks a block file of the model is made of: headword guess, lines,
\* region guess, and whether the block was closed on its last line (else it
\* was flushed with end_line 0)
BlockBodies ==
    {[headword_guess |-> Str("aab"), lines |-> <<Str("aab * water * N Er Su")>>,
      regions_guess |-> <<Str("Er"), Str("Su")>>, closed |-> TRUE],
     [headword_guess |-> Str("aada"), lines |-> <<Str("aada * custom")>>,
      regions_guess |-> <<>>, closed |-> TRUE],
     [headword_guess |-> Str("aada"), lines |-> <<Str("aada * custom"), Str("pl * V")>>,
      regions_guess |-> <<>>, closed |-> FALSE],
     [headword_guess |-> Str("daatiya"), lines |-> <<Str("daatiya * going * Phr")>>,
      regions_guess |-> <<>>, closed |-> TRUE],
     [headword_guess |-> Str("daatiya"), lines |-> <<Str("daatiya * going * Phr Su Er")>>,
      regions_guess |-> <<Str("Su"), Str("Er")>>, closed |-> TRUE],
     [headword_guess |-> Str("women"), lines |-> <<Str("women * females")>>,
      regions_guess |-> <<>>, closed |-> TRUE],
     [headword_guess |-> <<>>, lines |-> <<Str("@# % (girls) *~Su^")>>,
      regions_guess |-> <<Str("Su")>>, closed |-> TRUE]}

\* the block file made of the bodies bs, all on page 1, one after the other
block_file(bs) ==
    Tup([i \in 1..Len(bs) |->
            [page |-> 1,
             start_line |-> 1 + SumSeq(Tup([k \in 1..(i - 1) |-> Len(bs[k].lines)])),
             headword_guess |-> bs[i].headword_guess,
             lines |-> bs[i].lines,
             end_line |-> IF bs[i].closed
                          THEN SumSeq(Tup([k \in 1..i |-> Len(bs[k].lines)]))
                          ELSE 0,
             regions_guess |-> bs[i].regions_guess]])

BlockFiles(most) == {block_file(bs) : bs \in UNION {[1..n -> BlockBodies] : n \in 0..most}}

\* the repair pass taken alone: the block file is any file of the model
InitRepair ==
    /\ pc = "segmented"
    /\ pages = <<>>
    /\ page_num = 0
    /\ ln_idx = 0
    /\ current = None
    /\ current_regions = <<>>
    /\ last_good_headword = None
    /\ blocks_out \in BlockFiles(MaxBlocks)
    /\ printed = <<>>
    /\ InitRepairVars
    /\ InitOVVars
    /\ InitArbVars

SpecRepair == InitRepair /\ [][NextRepair]_vars

\* segmentation by the v5 segmenter, then the repair pass on its blocks
NextPipeline == NextV5 \/ NextRepair

SpecPipeline == InitV5 /\ [][NextPipeline]_vars

----------------------------------------------------------------------------
(* 25_parse_reconstructed_lines_with_alpha_check.py: the order validator *)

RESYNC_AFTER == 10

\* norm of this script: bidi marks removed, whitespace collapsed
ov_norm(s) == py_strip(py_join(py_split(py_remove(s, "^")), " "), Whitespace)

\* hw.strip(".,;:!?()[]{}<>\"...")
OVStripChars == StripPunct \cup {"<", ">"}

ov_normalize_headword(hw) == py_strip(py_lower(ov_norm(hw)), OVStripChars)

\* re.sub(r"[^a-z']", "", s) on the lower-cased text
normalize_key(s) == SelectSeq(py_lower(ov_norm(s)), LAMBDA c : c \in Lower \cup {"'"})

\* the first character of k that is a letter (an optional value)
first_letter_of(k) ==
    IF \E i \in 1..Len(k) : k[i] \in Lower
    THEN Some(k[SetMin({i \in 1..Len(k) : k[i] \in Lower})])
    ELSE None

first_initial(s) == first_letter_of(normalize_key(s))

\* chr(ord(ch) + 1) with one more added
next_letter_skip(ch) ==
    IF ch = <<>> \/ ch[1] \in {"y", "z"} THEN None
    ELSE Some(LowerSeq[(CHOOSE i \in 1..Len(LowerSeq) : LowerSeq[i] = ch[1]) + 2])

\* next_letter of an optional letter
next_letter(ch) ==
    IF ch = <<>> THEN None
    ELSE IF ch[1] = "z" THEN None
    ELSE Some(LowerSeq[(CHOOSE i \in 1..Len(LowerSeq) : LowerSeq[i] = ch[1]) + 1])

\* the first token of the normalized text (an optional value)
first_token_of(t) == IF t = <<>> THEN None ELSE Some(py_split(t)[1])

extract_headword(raw_text) == first_token_of(ov_norm(raw_text))

\* \b between index e and index e + 1 of s, e in 0..Len(s)
re_boundary(s, e) ==
    (e >= 1 /\ s[e] \in WordChar) # (e + 1 <= Len(s) /\ s[e + 1] \in WordChar)

\* the pattern p (lower case) matches s at index i, case ignored
matches_at(s, i, p) ==
    /\ i + Len(p) - 1 <= Len(s)
    /\ \A k \in 1..Len(p) : py_lower_char(s[i + k - 1]) = p[k]

\* the alternatives of POS_MARK_RE, in order
PosMarks ==
    <<Str("n."), Str("v."), Str("adj."), Str("adv."), Str("v.w."), Str("v.s."), Str("v.s5"),
      Str("ag."), Str("act."), Str("nm."), Str("nf."), Str("vm."), Str("vn.")>>

\* the match POS_MARK_RE.search takes among hits, each hit being
\* 100 * index + number of the alternative: the leftmost, then the first
\* alternative
pos_mark_first(hits) == IF hits = {} THEN None ELSE Some(PosMarks[SetMin(hits) % 100])

\* POS_MARK_RE.search(t): group 1 in lower case (an optional value)
POS_MARK_RE(t) ==
    pos_mark_first({100 * i + k : <<i, k>> \in
                       {h \in (1..Len(t)) \X (1..Len(PosMarks)) :
                           /\ re_boundary(t, h[1] - 1)
                           /\ matches_at(t, h[1], PosMarks[h[2]])
                           /\ re_boundary(t, h[1] + Len(PosMarks[h[2]]) - 1)}})

\* CONTINUATION_PREFIX_RE = ^(def\.|cf|sg\.|pl\.|see|also)\b, case ignored
CONTINUATION_PREFIX_RE(text) ==
    \E p \in {Str("def."), Str("cf"), Str("sg."), Str("pl."), Str("see"), Str("also")} :
        matches_at(text, 1, p) /\ re_boundary(text, Len(p))

BAD_HEADWORDS ==
    {Str("def"), Str("def."), Str("sg"), Str("pl"), Str("adv"), Str("adj"), Str("n"),
     Str("v"), Str("cf"), Str("eg"), Str("er"), Str("su"), Str("m"), Str("f"), Str("mf"),
     Str("act"), Str("agent"), Str("one"), Str("the"), Str("and"), Str("or"), Str("of"),
     Str("to"), Str("bias")}

\* BEJA_HEADWORD_RE = ^[a-z][a-z'\/\-]{1,30}$
BEJA_HEADWORD_RE(hw) ==
    /\ Len(hw) \in 2..31
    /\ hw[1] \in Lower
    /\ \A k \in 2..Len(hw) : hw[k] \in Lower \cup {"'", "/", "-"}

\* lines 77-92 on the normalized text
entry_like(t) ==
    IF t = <<>> THEN FALSE
    ELSE IF Len(py_split(t)) <= 1 THEN FALSE
    ELSE IF POS_MARK_RE(t) # None THEN TRUE
    ELSE \E i \in 1..Len(t) : t[i] \in {",", ";", ":", "."}

looks_like_real_entry_line(text) == entry_like(ov_norm(text))

\* lines 108-126 on the normalized headword: the reason of the rejection, ""
\* when the headword is plausible
headword_shape_reason(hw_norm) ==
    IF hw_norm \in BAD_HEADWORDS THEN "headword_in_badlist"
    ELSE IF (\E i \in 1..Len(hw_norm) : hw_norm[i] \in Digit) \/ ARABIC_RE(hw_norm)
         THEN "headword_has_digits_or_arabic"
    ELSE IF ~LATIN_RE(hw_norm) THEN "headword_not_latin"
    ELSE IF ~BEJA_HEADWORD_RE(hw_norm) THEN "headword_bad_shape"
    ELSE ""

\* lines 98-126 on the normalized text
plausible_reason(hw, text) ==
    IF CONTINUATION_PREFIX_RE(text) THEN "continuation_line"
    ELSE IF ~looks_like_real_entry_line(text) THEN "not_entry_like_line"
    ELSE headword_shape_reason(ov_normalize_headword(hw))

\* headword_is_plausible(hw, raw_text): the reason, "" standing for (True, "")
headword_is_plausible(hw, raw_text) ==
    IF hw = None \/ hw[1] = <<>> THEN "no_headword"
    ELSE plausible_reason(hw[1], ov_norm(raw_text))

\* rest if rest else None
text_or_none(s) == IF s = <<>> THEN None ELSE Some(s)

\* lines 138-156: the entry of a plausible line, hw its first token
ov_entry(rec, text, hw) ==
    [headword |-> ov_normalize_headword(hw),
     pos_guess |-> POS_MARK_RE(text),
     gloss_en |-> text_or_none(py_strip(SubSeq(text, Len(py_split(text)[1]) + 1, Len(text)),
                                        Whitespace)),
     raw |-> text,
     ocr_conf |-> rec.avg_conf,
     source |-> [page |-> rec.page, line_index |-> rec.line_index, psm |-> rec.psm]]

\* lines 134-157, reason being the verdict of headword_is_plausible
parse_plausible(rec, text, hw, reason) ==
    IF reason # "" THEN [entry |-> None, err |-> Some(reason)]
    ELSE [entry |-> Some(ov_entry(rec, text, hw[1])), err |-> None]

\* lines 130-136 on the normalized text
parse_text(rec, text) ==
    IF text = <<>> THEN [entry |-> None, err |-> Some("empty_text")]
    ELSE parse_plausible(rec, text, extract_headword(text),
                         headword_is_plausible(extract_headword(text), text))

\* parse_line_to_entry(rec): the pair (entry, err)
parse_line_to_entry(rec) == parse_text(rec, ov_norm(rec.text))

\* the letters of S in alphabetic order
sorted_letters(S) ==
    pick(LowerSeq, SortedSeq({i \in 1..Len(LowerSeq) : LowerSeq[i] \in S}))

\* repr of a list of one-letter strings
RECURSIVE letters_repr(_)
letters_repr(xs) ==
    IF xs = <<>> THEN <<>>
    ELSE IF Len(xs) = 1 THEN <<"'", xs[1], "'">>
    ELSE <<"'", xs[1], "'", ",", " ">> \o letters_repr(Tail(xs))

\* f"cur_initial='{cur_init}' not in allowed={sorted(list(allowed))}"
jump_note(cur_init, allowed) ==
    Str("cur_initial='") \o <<cur_init>> \o Str("' not in allowed=[")
        \o letters_repr(sorted_letters(allowed)) \o <<"]">>

\* log_error: the payload appended to the error log; entry is optional
log_error(kind, rec, entry, note, lge) ==
    [headword |-> IF entry # None /\ entry[1].headword # <<>>
                  THEN Some(entry[1].headword)
                  ELSE extract_headword(rec.text),
     page |-> rec.page,
     line_index |-> rec.line_index,
     error |-> kind,
     note |-> note,
     avg_conf |-> rec.avg_conf,
     raw_text |-> rec.text,
     last_good_headword |-> IF lge # None THEN Some(lge[1].headword) ELSE None]

\* the state of main's loop
OVState ==
    [kept |-> kept, last_good_entry |-> last_good_entry, last_initial |-> last_initial,
     consecutive_rejects |-> consecutive_rejects, errors_out |-> errors_out]

\* a rejection that counts the record and logs nothing
ov_reject_silent(st, rec, kind, entry, note) ==
    [st EXCEPT !.consecutive_rejects = @ + 1]

\* consecutive_rejects += 1; log_error(...); continue
ov_reject(st, rec, kind, entry, note) ==
    [st EXCEPT !.consecutive_rejects = @ + 1,
               !.errors_out = Append(@, log_error(kind, rec, entry, note, st.last_good_entry))]

\* kept.append(entry) and the anchor moved to it
ov_keep(st, entry, cur_init) ==
    [st EXCEPT !.kept = Append(@, entry),
               !.last_good_entry = Some(entry),
               !.last_initial = cur_init,
               !.consecutive_rejects = 0]

\* lines 218-221: allowed = {last_initial} and its next letter
allowed_initials(li) == {li[1]} \cup Range(next_letter(li))

\* line 211 with the resync never due
resync_never(n) == FALSE

\* line 211 with the resync due at once
resync_at_once(n) == TRUE

\* line 211: consecutive_rejects >= RESYNC_AFTER
resync_due(n) == n >= RESYNC_AFTER

\* lines 218-236
ov_ordered(st, rec, entry, cur_init, allowed) ==
    IF cur_init[1] \notin allowed
    THEN ov_reject(st, rec, "implausible_letter_jump", Some(entry),
                   jump_note(cur_init[1], allowed))
    ELSE ov_keep(st, entry, cur_init)

\* lines 197-236, cur_init being first_initial of the entry's headword
ov_candidate(st, rec, entry, cur_init) ==
    IF cur_init = None THEN ov_reject(st, rec, "no_initial", Some(entry), <<>>)
    ELSE IF st.last_initial = None THEN ov_keep(st, entry, cur_init)
    ELSE IF resync_due(st.consecutive_rejects) THEN ov_keep(st, entry, cur_init)
    ELSE ov_ordered(st, rec, entry, cur_init, allowed_initials(st.last_initial))

\* lines 191-197, f holding the result of parse_line_to_entry and the initial
\* of the entry's headword
ov_process(st, rec, f) ==
    IF f.err # None THEN ov_reject(st, rec, f.err[1], None, <<>>)
    ELSE ov_candidate(st, rec, f.entry[1], f.cur_init)

\* lines 191 and 197 for one record: the parse and the initial
ov_parsed_initial(r) ==
    [entry |-> r.entry, err |-> r.err,
     cur_init |-> IF r.err = None THEN first_initial(r.entry[1].headword) ELSE None]

ov_line_facts(rec) == ov_parsed_initial(parse_line_to_entry(rec))

\* bounds of the order validator's input
MaxRecs == 12
MaxKept == 2
MaxJunk == 2

\* the texts of the reconstructed lines
OVTexts == {Str("aab n. water"), Str("Baab, door"), Str("see aab")}

\* a line of 24_reconstruct_lines_from_ocr.py: page 1, lines numbered from 1
ov_rec(text, idx) ==
    [text |-> text, page |-> 1, line_index |-> idx, avg_conf |-> 90, psm |-> 6]

\* what the loop computes from each text at each place of the input
OVFacts == [text \in OVTexts |-> [idx \in 1..MaxRecs |-> ov_line_facts(ov_rec(text, idx))]]

\* the records read so far
ov_read == Len(kept) + Len(errors_out)

\* the records rejected so far for another reason than the letter order
ov_junk(errs) ==
    Cardinality({i \in 1..Len(errs) : errs[i].error # "implausible_letter_jump"})

OVBecomes(st) ==
    /\ Len(st.kept) <= MaxKept
    /\ ov_junk(st.errors_out) <= MaxJunk
    /\ kept' = st.kept
    /\ last_good_entry' = st.last_good_entry
    /\ last_initial' = st.last_initial
    /\ consecutive_rejects' = st.consecutive_rejects
    /\ errors_out' = st.errors_out

\* lines 190-236: the loop takes the next record
OVRecord(text) ==
    /\ pc = "validating"
    /\ ov_read < MaxRecs
    /\ OVBecomes(ov_process(OVState, ov_rec(text, ov_read + 1), OVFacts[text][ov_read + 1]))
    /\ UNCHANGED <<segvars, repvars, arbvars>>

\* lines 238-246: the kept entries are written out
OVFinish ==
    /\ pc = "validating"
    /\ pc' = "validated"
    /\ UNCHANGED <<pages, page_num, ln_idx, current, current_regions, last_good_headword,
                   blocks_out, printed>>
    /\ UNCHANGED <<repvars, ovvars, arbvars>>

NextOV == (\E text \in OVTexts : OVRecord(text)) \/ OVFinish

InitOV ==
    /\ pc = "validating"
    /\ pages = <<>>
    /\ page_num = 0
    /\ ln_idx = 0
    /\ current = None
    /\ current_regions = <<>>
    /\ last_good_headword = None
    /\ blocks_out = <<>>
    /\ printed = <<>>
    /\ InitRepairVars
    /\ InitOVVars
    /\ InitArbVars

SpecOV == InitOV /\ [][NextOV]_vars

----------------------------------------------------------------------------
(* The two language arbiters put to the same candidates *)

\* the most tokens of a candidate
MaxTokens == 3

\* the tokens candidates are made of
ArbTokens ==
    {Str("women"), Str("the"), Str("custom"), Str("females"), Str("tak"), Str("aab"),
     Str("Been,"), Str("too"), Str("wa'"), Str("water/t"), Str("GOING"), Str("(girls)"),
     Str("Custom,")}

\* the candidates: one to MaxTokens tokens with a space between them
ArbCandidates(most) ==
    {py_join(ts, " ") : ts \in UNION {[1..n -> ArbTokens] : n \in 1..most}}

\* the segmenter asks is_englishy_headword(candidate)
AskEnglishy ==
    /\ pc = "arbiter"
    /\ englishy = None
    /\ englishy' = Some(is_englishy_headword(candidate))
    /\ UNCHANGED <<segvars, repvars, ovvars, candidate, probably_english, linevars, ebvars>>

\* the repair pass asks looks_probably_english_headword(candidate)
AskProbablyEnglish ==
    /\ pc = "arbiter"
    /\ probably_english = None
    /\ probably_english' = Some(looks_probably_english_headword(candidate))
    /\ UNCHANGED <<segvars, repvars, ovvars, candidate, englishy, linevars, ebvars>>

NextArbiter == AskEnglishy \/ AskProbablyEnglish

InitArbiter ==
    /\ pc = "arbiter"
    /\ pages = <<>>
    /\ page_num = 0
    /\ ln_idx = 0
    /\ current = None
    /\ current_regions = <<>>
    /\ last_good_headword = None
    /\ blocks_out = <<>>
    /\ printed = <<>>
    /\ InitRepairVars
    /\ InitOVVars
    /\ candidate \in ArbCandidates(MaxTokens)
    /\ englishy = None
    /\ probably_english = None
    /\ line_in = <<>>
    /\ line_fixed = None
    /\ line_hw = None
    /\ last_flushed = None

SpecArbiter == InitArbiter /\ [][NextArbiter]_vars
----------------------------------------------------------------------------
(* 02_make_entry_blocks_region_aware_v5.py: the repairs of a line and the
   headword parser, put to lines built from a few tokens *)

\* the most digit runs at the start of a line, and the most tokens after them
\* and before the first delimiter
MaxDigitRuns == 2
MaxHead == 4

\* the tokens head zones are made of
HeadTokens == {Str("aab"), Str("pl"), Str("women"), Str("aa\\b"), Str("p\\l"), Str("Aab")}

\* the last good headwords the parser is given
LastGoods == {None, Some(Str("aada"))}

\* what follows the head zone
LineTails == {<<>>, Str("* water"), Str("* going Su")}

\* n times the digit run "22"
DigitRuns(n) == [i \in 1..n |-> Str("22")]

\* the lines: up to digits digit runs, up to heads head tokens and a tail,
\* with a space between them
LineTexts(digits, heads) ==
    {py_join(NonEmpty(DigitRuns(n) \o hs \o <<tl>>), " ") :
        n \in 0..digits,
        hs \in UNION {[1..k -> HeadTokens] : k \in 0..heads},
        tl \in LineTails}

\* lines 294-303: a line that survives the ignore filter is stripped of its
\* leading digits and of its leading star noise
LineFix ==
    /\ pc = "line"
    /\ line_fixed = None
    /\ ~should_ignore_line(normalize_line(line_in))
    /\ line_fixed' = Some(v5_fix_line(normalize_line(line_in)))
    /\ UNCHANGED <<segvars, repvars, ovvars, candidate, englishy, probably_english,
                   line_in, line_hw, ebvars>>

\* line 324: the headword parser is put to the repaired line
LineParse(lgh) ==
    /\ pc = "line"
    /\ line_fixed # None
    /\ line_hw = None
    /\ line_hw' = Some([lgh |-> lgh, ret |-> parse_multiword_headword(line_fixed[1], lgh)])
    /\ UNCHANGED <<segvars, repvars, ovvars, candidate, englishy, probably_english,
                   line_in, line_fixed, ebvars>>

NextLine == LineFix \/ \E lgh \in LastGoods : LineParse(lgh)

InitLine ==
    /\ pc = "line"
    /\ pages = <<>>
    /\ page_num = 0
    /\ ln_idx = 0
    /\ current = None
    /\ current_regions = <<>>
    /\ last_good_headword = None
    /\ blocks_out = <<>>
    /\ printed = <<>>
    /\ InitRepairVars
    /\ InitOVVars
    /\ candidate = <<>>
    /\ englishy = None
    /\ probably_english = None
    /\ line_in \in LineTexts(MaxDigitRuns, MaxHead)
    /\ line_fixed = None
    /\ line_hw = None
    /\ last_flushed = None

SpecLine == InitLine /\ [][NextLine]_vars

----------------------------------------------------------------------------
(* 13_block_english_beja_by_region.py: the English-to-Beja blocker *)

\* REGIONS
REGIONS == {Str("Er"), Str("Su"), Str("Eg")}

\* the character that opens a comment line, U+0023; it is written "$" here
\* because "#" stands for an Arabic letter in the texts of this module
HashSign == "$"

\* normalize: bidi marks removed, whitespace collapsed
eb_normalize(line) == py_strip(py_join(py_split(py_remove(line, "^")), " "), Whitespace)

\* is_header_or_comment
is_header_or_comment(line) == line = <<>> \/ line[1] = HashSign

\* the punctuation stripped from what is left of a line without its digits
EBJunkPunct ==
    {"(", ")", "[", "]", "{", "}", ".", ",", ";", ":", "!", "?", "'", "\"", "+", "-",
     "_", "/", "\\", "|", "<", ">"}

\* lines 49-50, on the normalized line s
line_number_rest(s) ==
    py_strip(py_strip(SelectSeq(s, LAMBDA x : x \notin Digit), Whitespace), EBJunkPunct)

\* lines 36-53, on the normalized line s
is_line_number_norm(s) ==
    IF s = <<>> THEN TRUE
    ELSE IF LATIN_RE(s) \/ ARABIC_RE(s) THEN FALSE
    ELSE IF ~(\E i \in 1..Len(s) : s[i] \in Digit) THEN FALSE
    ELSE line_number_rest(s) = <<>> /\ Len(s) <= 6

\* is_line_number
is_line_number(line) == is_line_number_norm(eb_normalize(line))

\* the length of the run of digits that starts s
digit_run(s) == SetMax({k \in 0..Len(s) : \A i \in 1..k : s[i] \in Digit})

\* LEADING_NUMBER_RE = ^\s*[0-9]{1,4}\s+(.*)$ on s1, the line without its
\* leading whitespace, whose leading digit run has length n: group 1, stripped,
\* or the line itself when the pattern does not match
leading_number_group(line, s1, n) ==
    IF n \in 1..4 /\ n < Len(s1) /\ s1[n + 1] \in Whitespace
    THEN py_strip(SubSeq(s1, n + 1, Len(s1)), Whitespace)
    ELSE line

\* strip_leading_number
strip_leading_number(line) ==
    leading_number_group(line, py_lstrip(line, Whitespace),
                         digit_run(py_lstrip(line, Whitespace)))

\* tokens
eb_tokens(line) == NonEmpty(re_split(line, Whitespace \cup {"*"}))

\* has_region_token
has_region_token(line) == \E i \in 1..Len(eb_tokens(line)) : eb_tokens(line)[i] \in REGIONS

\* is_region_only_line
is_region_only_line(line) ==
    /\ eb_tokens(line) # <<>>
    /\ \A i \in 1..Len(eb_tokens(line)) : eb_tokens(line)[i] \in REGIONS

\* lines 83-85: the leading pure-number lines of the entry are dropped and its
\* start line moved past them
RECURSIVE drop_number_lines(_)
drop_number_lines(entry) ==
    IF entry.lines # <<>> /\ is_line_number(eb_normalize(entry.lines[1]))
    THEN drop_number_lines([entry EXCEPT !.lines = Tail(@), !.start_line = @ + 1])
    ELSE entry

\* lines 87-92: the entry is written unless no line is left of it
write_dropped(st, entry) ==
    IF entry.lines = <<>> THEN st
    ELSE [st EXCEPT !.blocks_out = Append(@, entry)]

\* write_entry
write_entry(st, entry) == write_dropped(st, drop_number_lines(entry))

\* the open block with its end_line set
ended(block, end_line) ==
    [page |-> block.page, start_line |-> block.start_line, lines |-> block.lines,
     end_line |-> end_line]

\* flush(end_line) of this script: the open block becomes the pending one
eb_flush(st, end_line) ==
    IF st.current = None THEN st
    ELSE [st EXCEPT !.last_flushed = Some(ended(st.current[1], end_line)),
                    !.current = None]

\* commit_last_flushed that forgets the pending block
commit_forgets(st) == [st EXCEPT !.last_flushed = None]

\* commit_last_flushed
commit_last_flushed(st) ==
    IF st.last_flushed # None
    THEN [write_entry(st, st.last_flushed[1]) EXCEPT !.last_flushed = None]
    ELSE st

\* lines 125-130: the region-only line is attached to the pending block,
\* which is written
attach_region_wrap(st, line, i) ==
    [write_entry(st, [st.last_flushed[1] EXCEPT !.lines = Append(@, line), !.end_line = i])
        EXCEPT !.last_flushed = None]

\* lines 135-139: a region-only line ends the open block, if any
region_only_ends(st, line, i) ==
    IF st.current # None
    THEN eb_flush([st EXCEPT !.current = <<[@[1] EXCEPT !.lines = Append(@, line)]>>], i)
    ELSE st

\* lines 151-152: a region token ends the entry
flush_on_region(st, line, i) == IF has_region_token(line) THEN eb_flush(st, i) ELSE st

\* lines 143-146: no block is open; the line, without its leading number,
\* opens one unless nothing or a bare number is left of it
open_stripped(st, stripped, i, page) ==
    IF stripped = <<>> \/ is_line_number(stripped) THEN st
    ELSE flush_on_region(
             [st EXCEPT !.current = Some([page |-> page, start_line |-> i,
                                          lines |-> <<stripped>>])],
             stripped, i)

\* lines 142-152
open_or_append(st, line, i, page) ==
    IF st.current = None THEN open_stripped(st, strip_leading_number(line), i, page)
    ELSE flush_on_region([st EXCEPT !.current = <<[@[1] EXCEPT !.lines = Append(@, line)]>>],
                         line, i)

\* lines 135-152, once the pending block is dealt with
after_pending(st, line, i, page) ==
    IF is_region_only_line(line) THEN region_only_ends(st, line, i)
    ELSE open_or_append(st, line, i, page)

\* lines 124-152
with_pending(st, line, i, page) ==
    IF st.last_flushed # None
    THEN IF is_region_only_line(line) THEN attach_region_wrap(st, line, i)
         ELSE after_pending(commit_last_flushed(st), line, i, page)
    ELSE after_pending(st, line, i, page)

\* lines 120-152: the body of the loop for the line numbered i of the page
eb_process_line(st, line, i, page) ==
    IF is_line_number(line) THEN st ELSE with_pending(st, line, i, page)

\* lines 155-162: at the end of the page the pending block is written, then
\* the open one with end_line 0
eb_page_end_open(st) ==
    IF st.current # None
    THEN [write_entry(st, ended(st.current[1], 0)) EXCEPT !.current = None]
    ELSE st

eb_page_end_pending(st) ==
    IF st.last_flushed # None
    THEN [write_entry(st, st.last_flushed[1]) EXCEPT !.last_flushed = None]
    ELSE st

eb_page_end(st) == eb_page_end_open(eb_page_end_pending(st))

\* the lines read over all pages in the model of this script
MaxEBLines == 4

\* the raw page lines the model feeds the blocker
EBRawLines ==
    {Str("accountant * muhaasib"),
     Str(" 33  able *~agdir Su^"),
     Str("* Er Su"),
     Str("(33)"),
     Str("7 12."),
     Str("$ page two")}

\* the state of main's loop
EBState == [current |-> current, last_flushed |-> last_flushed, blocks_out |-> blocks_out]

\* each raw line normalized, and the state the loop body leaves from every
\* state is computed from it
EBNorm == [raw \in EBRawLines |-> eb_normalize(raw)]

EBBecomes(st) ==
    /\ current' = st.current
    /\ last_flushed' = st.last_flushed
    /\ blocks_out' = st.blocks_out

\* lines 108-116: the next page file is opened and its lines are read
EBOpenPage ==
    /\ pc = "eb_between"
    /\ page_num < MaxPages
    /\ pc' = "eb_inpage"
    /\ page_num' = page_num + 1
    /\ pages' = Append(pages, <<>>)
    /\ ln_idx' = 0
    /\ UNCHANGED <<current, current_regions, last_good_headword, blocks_out, printed,
                   repvars, ovvars, arbvars>>

\* lines 116-152: the next line of the page that is neither empty nor a comment
EBLine(raw) ==
    /\ pc = "eb_inpage"
    /\ TotalLines < MaxEBLines
    /\ ~is_header_or_comment(EBNorm[raw])
    /\ EBBecomes(eb_process_line(EBState, EBNorm[raw], ln_idx + 1, page_num))
    /\ pages' = [pages EXCEPT ![page_num] = Append(@, EBNorm[raw])]
    /\ ln_idx' = ln_idx + 1
    /\ UNCHANGED <<pc, page_num, current_regions, last_good_headword, printed,
                   repvars, ovvars, candidate, englishy, probably_english, linevars>>

\* lines 155-162: the end of the page
EBPageEnd ==
    /\ pc = "eb_inpage"
    /\ EBBecomes(eb_page_end(EBState))
    /\ pc' = "eb_between"
    /\ UNCHANGED <<pages, page_num, ln_idx, current_regions, last_good_headword, printed,
                   repvars, ovvars, candidate, englishy, probably_english, linevars>>

\* line 164: the page loop is over
EBFinish ==
    /\ pc = "eb_between"
    /\ pc' = "eb_done"
    /\ UNCHANGED <<pages, page_num, ln_idx, current, current_regions,
                   last_good_headword, blocks_out, printed, repvars, ovvars, arbvars>>

NextEB ==
    \/ EBOpenPage
    \/ \E raw \in EBRawLines : EBLine(raw)
    \/ EBPageEnd
    \/ EBFinish

InitEB ==
    /\ pc = "eb_between"
    /\ pages = <<>>
    /\ page_num = 0
    /\ ln_idx = 0
    /\ current = None
    /\ current_regions = <<>>
    /\ last_good_headword = None
    /\ blocks_out = <<>>
    /\ printed = <<>>
    /\ InitRepairVars
    /\ InitOVVars
    /\ InitArbVars

SpecEB == InitEB /\ [][NextEB]_vars
----------------------------------------------------------------------------
(* Properties of the v5 segmenter *)

\* the block b holds the repaired text of consecutive lines of its own page,
\* from its start_line on
LinesOfOwnPage(b) ==
    /\ b.page \in 1..Len(pages)
    /\ b.start_line >= 1
    /\ b.start_line + Len(b.lines) - 1 <= Len(pages[b.page])
    /\ \A k \in 1..Len(b.lines) :
           b.lines[k] = v5_fix_line(pages[b.page][b.start_line + k - 1])

\* C1: at most one block is open; a block that stops being the open block
\* has been written to the output (as the next block written, with the lines
\* it held, plus at most the line that closed it), and after a step that
\* writes a block no block is open unless that very step opened a new one
\* on the line it consumed.
C1_OneOpenBlock ==
    [][ /\ Len(current') <= 1
        /\ ( /\ current # None
             /\ \/ current' = None
                \/ current'[1].start_line # current[1].start_line
                \/ current'[1].page # current[1].page )
           => /\ Len(blocks_out') > Len(blocks_out)
              /\ LET b == blocks_out'[Len(blocks_out) + 1]
                 IN /\ b.page = current[1].page
                    /\ b.start_line = current[1].start_line
                    /\ b.headword_guess = current[1].headword_guess
                    /\ SubSeq(b.lines, 1, Len(current[1].lines)) = current[1].lines
                    /\ Len(b.lines) <= Len(current[1].lines) + 1
        /\ Len(blocks_out') > Len(blocks_out)
           => \/ current' = None
              \/ /\ ln_idx' = ln_idx + 1
                 /\ current'[1].start_line = ln_idx'
                 /\ current'[1].page = page_num
                 /\ Len(current'[1].lines) = 1
      ]_vars

\* an entry start arrived while a block was open: the old block is on the
\* output, closed on the previous line, and the new block is the open one
C1_Witness ==
    /\ current # None
    /\ blocks_out # <<>>
    /\ blocks_out[Len(blocks_out)].page = current[1].page
    /\ blocks_out[Len(blocks_out)].end_line = current[1].start_line - 1
    /\ blocks_out[Len(blocks_out)].end_line >= 1

\* C2: no block holds lines of more than one page: no block is open before
\* the first line of a page is consumed, and every block written, like the
\* open block, holds lines of its own page only, its start_line and its
\* non-zero end_line being indexes of lines of that page.
C2_NoCrossPageBlock ==
    /\ (pc = "between" \/ ln_idx = 0) => current = None
    /\ current # None => current[1].page = page_num /\ LinesOfOwnPage(current[1])
    /\ \A i \in 1..Len(blocks_out) :
           /\ LinesOfOwnPage(blocks_out[i])
           /\ blocks_out[i].end_line <= Len(pages[blocks_out[i].page])

\* a block was force-flushed at the end of its page and a later page has
\* had lines consumed
C2_Witness ==
    \E i \in 1..Len(blocks_out) :
        /\ blocks_out[i].end_line = 0
        /\ blocks_out[i].page < page_num
        /\ Len(pages[page_num]) >= 1

\* C4: every line consumed is appended to the open block, starts a block, or
\* is dropped with an issue record.
C4_EveryLineAccountedFor ==
    [][ ln_idx' = ln_idx + 1
        => \/ current' # current
           \/ blocks_out' # blocks_out
           \/ Len(issues') > Len(issues)
      ]_vars


\* C14: a step that force-flushes the block still open at the end of a page
\* (end_line = 0) also writes an issue record
C14_PageFlushLogged ==
    [][ (/\ Len(blocks_out') = Len(blocks_out) + 1
         /\ blocks_out'[Len(blocks_out')].end_line = 0)
        => Len(issues') > Len(issues)
      ]_vars

\* the state main starts in
FreshSegState ==
    [current |-> None, current_regions |-> <<>>, blocks_out |-> <<>>,
     last_good_headword |-> None, printed |-> <<>>]

\* the normalized texts of the lines of the model, and the facts of each under
\* every last good headword
NormLines == {normalize_line(raw) : raw \in RawLines}
NormFacts ==
    [n \in NormLines |-> [h \in V5Headwords |-> v5_facts_of_line(n, v5_fix_line(n), h)]]

\* the state after st when the line of text n comes as line number idx
v5_process_line_after(st, n, idx, page) ==
    v5_process_line(st, NormFacts[n][st.last_good_headword], idx, page)

\* the segmenter's state after the first k of the lines, taken as the lines of
\* page number page, when it starts the page in state st
RECURSIVE AfterLines(_, _, _, _)
AfterLines(st, lines, k, page) ==
    IF k = 0 THEN st
    ELSE v5_process_line_after(AfterLines(st, lines, k - 1, page), lines[k], k, page)

\* the blocks the segmenter writes for a page when it is the only page
BlocksOfPageAlone(lines, page) ==
    flush(AfterLines(FreshSegState, lines, Len(lines), page), 0).blocks_out

\* the blocks written so far for page number page
BlocksOfPage(page) == SelectSeq(blocks_out, LAMBDA b : b.page = page)

TokenBreak == Whitespace \cup {"*"}

\* the region code R stands as a token at index i of the line l
CodeAt(l, i, R) ==
    /\ i + Len(R) - 1 <= Len(l)
    /\ SubSeq(l, i, i + Len(R) - 1) = R
    /\ i = 1 \/ l[i - 1] \in TokenBreak
    /\ i + Len(R) - 1 = Len(l) \/ l[i + Len(R)] \in TokenBreak

\* the places where R stands as a token in the lines, each as
\* 1000 * line + index
PlacesOf(lines, R) ==
    UNION {{1000 * k + i : i \in {j \in 1..Len(lines[k]) : CodeAt(lines[k], j, R)}} :
              k \in 1..Len(lines)}

\* the region codes that occur as tokens in the lines
CodesIn(lines) == {R \in REGION_TOKENS : PlacesOf(lines, R) # {}}

\* the codes of S in the order of their first occurrence in the lines
InFirstOccurrenceOrder(lines, S) ==
    Tup([n \in 1..Cardinality(S) |->
            CHOOSE R \in S :
                Cardinality({Q \in S : SetMin(PlacesOf(lines, Q)) < SetMin(PlacesOf(lines, R))})
                    = n - 1])

RegionCodesOf(lines) == InFirstOccurrenceOrder(lines, CodesIn(lines))

\* C18: the regions_guess of a block written is the region codes that occur as
\* tokens in the block's own lines, each once, in the order of their first
\* occurrence (empty when there is none)
C18_RegionsOfOwnLines ==
    \A i \in 1..Len(blocks_out) :
        blocks_out[i].regions_guess = RegionCodesOf(blocks_out[i].lines)

\* a block took its region codes from the line that closed it, after a line
\* with a region code had been dropped while no block was open
C18_Witness ==
    /\ \E i \in 1..Len(blocks_out) :
          /\ Len(blocks_out[i].lines) >= 2
          /\ blocks_out[i].regions_guess # <<>>
          /\ RegionCodesOf(<<blocks_out[i].lines[1]>>) = <<>>
          /\ blocks_out[i].start_line >= 2
          /\ RegionCodesOf(<<pages[blocks_out[i].page][1]>>) # <<>>
          /\ \A j \in 1..Len(blocks_out) :
                blocks_out[j].page = blocks_out[i].page => blocks_out[j].start_line >= 2

\* the repaired text of each line of the model
FixedText == [n \in NormLines |-> v5_fix_line(n)]

\* the lines whose repaired text starts with a hard-excluded token
ExcludedStart ==
    {n \in NormLines :
        /\ NonEmpty(re_split(FixedText[n], Whitespace)) # <<>>
        /\ NonEmpty(re_split(FixedText[n], Whitespace))[1] \in NEVER_HEADWORDS}

\* the repaired lines that hold region codes and dashes only
RegionOnly == {n \in NormLines : is_region_line(FixedText[n])}

\* the step consumes the line of text n
Consumes(n) == ln_idx' = ln_idx + 1 /\ pages'[page_num][ln_idx'] = n

\* what C19 asks of a step that consumes the line n
ExcludedLineStep(n) ==
    IF current = None
    THEN current' = None /\ blocks_out' = blocks_out
    ELSE IF n \in RegionOnly
    THEN /\ current' = None
         /\ blocks_out' = Append(blocks_out, blocks_out'[Len(blocks_out')])
         /\ blocks_out'[Len(blocks_out')].lines = Append(current[1].lines, FixedText[n])
         /\ blocks_out'[Len(blocks_out')].start_line = current[1].start_line
         /\ blocks_out'[Len(blocks_out')].headword_guess = current[1].headword_guess
         /\ blocks_out'[Len(blocks_out')].end_line = ln_idx'
    ELSE /\ blocks_out' = blocks_out
         /\ current' = <<[current[1] EXCEPT !.lines = Append(@, FixedText[n])]>>

\* C19: a line whose first token, after the repairs, is hard-excluded never
\* opens a block: it is appended to the open block (which is written when the
\* line holds region codes only) or dropped when no block is open; and no
\* block written has a hard-excluded token in its headword_guess
C19_ExcludedNeverOpens ==
    /\ [](\A i \in 1..Len(blocks_out) :
             \A k \in 1..Len(py_split(blocks_out[i].headword_guess)) :
                 py_split(blocks_out[i].headword_guess)[k] \notin NEVER_HEADWORDS)
    /\ [][\A n \in ExcludedStart : Consumes(n) => ExcludedLineStep(n)]_vars

\* a hard-excluded line with two delimiters and a region code was appended to
\* the open block, which stays open
C19_Witness ==
    /\ current # None
    /\ Len(current[1].lines) >= 2
    /\ current[1].lines[Len(current[1].lines)] = Str("pl * Su * x")
    /\ looks_like_entry_head_line_strong(Str("pl * Su * x"))

\* the tokens of a line: its runs of characters other than blanks and delimiters
LineTokens(l) == NonEmpty(re_split(l, TokenBreak))

\* the line has two delimiters or more, or one and a POS, class or region tag
StrongSignal(l) ==
    \/ Cardinality({i \in 1..Len(l) : l[i] = "*"}) >= 2
    \/ /\ Cardinality({i \in 1..Len(l) : l[i] = "*"}) = 1
       /\ \E k \in 1..Len(LineTokens(l)) :
             LineTokens(l)[k] \in POS_TOKENS \cup CLASS_TOKENS \cup REGION_TOKENS

\* the part of the line before its first delimiter starts with a token of the
\* target language's shape that is not hard-excluded
TargetShapedHead(l) ==
    /\ py_split(py_split_once(l, "*")[1]) # <<>>
    /\ BEJA_TOKEN_RE(py_split(py_split_once(l, "*")[1])[1])
    /\ py_split(py_split_once(l, "*")[1])[1] \notin NEVER_HEADWORDS

\* the lines whose repaired text is a strong entry head
StrongStart == {n \in NormLines : StrongSignal(FixedText[n]) /\ TargetShapedHead(FixedText[n])}

\* C20: a line with a strong signal whose head zone starts with a
\* target-shaped token that is not excluded opens a new block on its own line
\* number, whatever the arbiter says of its head tokens
C20_StrongOpensBlock ==
    [][\A n \in StrongStart :
          Consumes(n) =>
              \/ current' # None /\ current'[1].start_line = ln_idx' /\ current'[1].page = page_num
              \/ /\ Len(blocks_out') > Len(blocks_out)
                 /\ blocks_out'[Len(blocks_out')].start_line = ln_idx'
                 /\ blocks_out'[Len(blocks_out')].page = page_num
      ]_vars

\* the lines main accepts as entry starts: the repaired text does not start
\* with a hard-excluded token, holds a delimiter, yields a headword and passes
\* the strong or the weak test
AcceptedStart ==
    {n \in NormLines \ ExcludedStart :
        /\ py_contains(FixedText[n], "*")
        /\ parse_multiword_headword(FixedText[n], None) # None
        /\ \/ looks_like_entry_head_line_strong(FixedText[n])
           \/ looks_like_entry_head_line_weak(FixedText[n],
                                              parse_multiword_headword(FixedText[n], None)[1])}

\* the headword extracted from each of them
StartHeadword == [n \in AcceptedStart |-> parse_multiword_headword(FixedText[n], None)[1]]

\* the region codes of each of them
StartRegions == [n \in AcceptedStart |-> extract_regions_from_line(FixedText[n])]

\* the block b is the open block, closed on line number e
ClosesOpenBlock(b, e) ==
    /\ b.page = current[1].page
    /\ b.start_line = current[1].start_line
    /\ b.headword_guess = current[1].headword_guess
    /\ b.lines = current[1].lines
    /\ b.end_line = e

\* b is the block the line n opens as line number i
StartsBlock(b, n, i) ==
    /\ b.page = page_num
    /\ b.start_line = i
    /\ b.headword_guess = StartHeadword[n]
    /\ b.lines = <<FixedText[n]>>

\* what C23 asks of a step that consumes the line n while a block is open
EntryStartStep(n) ==
    IF StartRegions[n] = <<>>
    THEN /\ Len(blocks_out') = Len(blocks_out) + 1
         /\ SubSeq(blocks_out', 1, Len(blocks_out)) = blocks_out
         /\ ClosesOpenBlock(blocks_out'[Len(blocks_out')], ln_idx' - 1)
         /\ current' # None
         /\ StartsBlock(current'[1], n, ln_idx')
    ELSE /\ Len(blocks_out') = Len(blocks_out) + 2
         /\ SubSeq(blocks_out', 1, Len(blocks_out)) = blocks_out
         /\ ClosesOpenBlock(blocks_out'[Len(blocks_out') - 1], ln_idx' - 1)
         /\ StartsBlock(blocks_out'[Len(blocks_out')], n, ln_idx')
         /\ blocks_out'[Len(blocks_out')].end_line = ln_idx'
         /\ current' = None

\* C23: an accepted entry-start line that comes as line i while a block is
\* open closes that block on line i - 1 without the new line and opens a block
\* that starts on line i with the line as its first line and the extracted
\* headword; when the line carries a region code the new block is closed at
\* once on line i and no block stays open
C23_EntryStartClosesAndOpens ==
    [][\A n \in AcceptedStart : (Consumes(n) /\ current # None) => EntryStartStep(n)]_vars

\* a block without region codes was closed by the entry start on the next
\* line, which carried a region code and was closed on its own line
C23_Witness ==
    /\ current = None
    /\ \E k \in 1..(Len(blocks_out) - 1) :
          /\ blocks_out[k].page = blocks_out[k + 1].page
          /\ blocks_out[k].regions_guess = <<>>
          /\ blocks_out[k].end_line = blocks_out[k + 1].start_line - 1
          /\ blocks_out[k + 1].end_line = blocks_out[k + 1].start_line
          /\ blocks_out[k + 1].regions_guess # <<>>
          /\ pages[blocks_out[k].page][blocks_out[k + 1].start_line] \in AcceptedStart

\* what C24 asks of a step that consumes the region-only line n
RegionOnlyStep(n) ==
    IF current = None
    THEN current' = None /\ blocks_out' = blocks_out
    ELSE /\ current' = None
         /\ Len(blocks_out') = Len(blocks_out) + 1
         /\ SubSeq(blocks_out', 1, Len(blocks_out)) = blocks_out
         /\ blocks_out'[Len(blocks_out')].page = current[1].page
         /\ blocks_out'[Len(blocks_out')].start_line = current[1].start_line
         /\ blocks_out'[Len(blocks_out')].headword_guess = current[1].headword_guess
         /\ blocks_out'[Len(blocks_out')].lines = Append(current[1].lines, FixedText[n])
         /\ blocks_out'[Len(blocks_out')].end_line = ln_idx'

\* C24: a region-only line that comes while a block is open becomes the last
\* line of the block, which is closed on that line's number, and no block
\* stays open; one that comes while no block is open is dropped and opens
\* nothing
C24_RegionOnlyCloses ==
    [][\A n \in RegionOnly : Consumes(n) => RegionOnlyStep(n)]_vars

\* a region-only line that does not start with a hard-excluded token closed
\* the block of the line before it, and another was dropped at the top of a
\* page
C24_Witness ==
    /\ current = None
    /\ \E k \in 1..Len(blocks_out) :
          /\ Len(blocks_out[k].lines) = 2
          /\ blocks_out[k].lines[2] = Str("* Er Su")
          /\ blocks_out[k].end_line = blocks_out[k].start_line + 1
    /\ \E p \in 1..Len(pages) :
          /\ pages[p] # <<>>
          /\ pages[p][1] \in RegionOnly
          /\ \A k \in 1..Len(blocks_out) : blocks_out[k].page = p => blocks_out[k].start_line > 1

\* the lines start..end of page p as the segmenter stores them: each filtered
\* line after the digit and star-noise fixes of lines 300-303
StoredRange(p, start, end) == [k \in 1..(end - start + 1) |-> FixedText[pages[p][start + k - 1]]]

\* a block closed on a line holds the lines of its own numbers
ClosedBlockRange(b) ==
    /\ 1 <= b.start_line
    /\ b.start_line <= b.end_line
    /\ b.end_line <= Len(pages[b.page])
    /\ Len(b.lines) = b.end_line - b.start_line + 1
    /\ b.lines = StoredRange(b.page, b.start_line, b.end_line)

\* a block written at the page boundary is the last of its page and holds
\* the lines from its start to the last line read
PageEndBlockRange(j) ==
    /\ 1 <= blocks_out[j].start_line
    /\ blocks_out[j].lines =
           StoredRange(blocks_out[j].page, blocks_out[j].start_line, Len(pages[blocks_out[j].page]))
    /\ \A i \in 1..Len(blocks_out) : blocks_out[i].page = blocks_out[j].page => i <= j
    /\ blocks_out[j].page = page_num => pc # "inpage"

\* the blocks of a page come in the order of their lines and share no line
BlocksInLineOrder ==
    \A i, j \in 1..Len(blocks_out) :
        i < j =>
            /\ blocks_out[i].page <= blocks_out[j].page
            /\ blocks_out[i].page = blocks_out[j].page =>
                  /\ blocks_out[i].end_line # 0
                  /\ blocks_out[i].end_line < blocks_out[j].start_line

\* a step writes a block with end_line 0 exactly when it is the page
\* boundary and a block is open
ZeroOnlyAtPageEnd ==
    /\ Len(blocks_out') >= Len(blocks_out)
    /\ (pc = "inpage" /\ pc' = "between" /\ current # None) =>
          /\ Len(blocks_out') = Len(blocks_out) + 1
          /\ blocks_out'[Len(blocks_out')].end_line = 0
    /\ \A j \in (Len(blocks_out) + 1)..Len(blocks_out') :
          blocks_out'[j].end_line = 0 => pc = "inpage" /\ pc' = "between" /\ current # None

\* C34: a block with end_line other than 0 has 1 <= start_line <= end_line
\* and holds exactly the stored text of the filtered lines start_line..end_line
\* of its page, in order; end_line is 0 exactly for the block that is open
\* when its page ends; the blocks of a page are written in increasing
\* start_line order and their line ranges are pairwise disjoint
C34_BlockLineRanges ==
    /\ [](/\ \A j \in 1..Len(blocks_out) :
                IF blocks_out[j].end_line # 0
                THEN ClosedBlockRange(blocks_out[j])
                ELSE PageEndBlockRange(j)
          /\ BlocksInLineOrder)
    /\ [][ZeroOnlyAtPageEnd]_vars

\* one page gave a block of two lines closed by the next entry start, whose
\* first line lost its leading digits, and a block still open at its end
C34_Witness ==
    /\ pc = "between"
    /\ \E i \in 1..(Len(blocks_out) - 1) :
          /\ blocks_out[i].page = blocks_out[i + 1].page
          /\ blocks_out[i].end_line = blocks_out[i].start_line + 1
          /\ blocks_out[i].lines[1] # pages[blocks_out[i].page][blocks_out[i].start_line]
          /\ blocks_out[i + 1].start_line = blocks_out[i].end_line + 1
          /\ blocks_out[i + 1].end_line = 0
----------------------------------------------------------------------------
(* Properties of the segmenter build_all.py runs *)

\* the block b holds the text of consecutive lines of its own page, from its
\* start_line on
V1LinesOfOwnPage(b) ==
    /\ b.page \in 1..Len(pages)
    /\ b.start_line >= 1
    /\ b.start_line + Len(b.lines) - 1 <= Len(pages[b.page])
    /\ \A k \in 1..Len(b.lines) : b.lines[k] = pages[b.page][b.start_line + k - 1]

\* C3: a block still open at the end of a page is flushed there: no block is
\* open between pages, no block (written or open) holds lines of a page other
\* than the one it names, and a non-zero end_line is an index into that page.
C3_V1NoCrossPageBlock ==
    /\ pc = "between" => current = None
    /\ current # None => V1LinesOfOwnPage(current[1])
    /\ \A i \in 1..Len(blocks_out) :
           /\ V1LinesOfOwnPage(blocks_out[i])
           /\ blocks_out[i].end_line <= Len(pages[blocks_out[i].page])

----------------------------------------------------------------------------
(* Properties of the repair pass *)

\* the step reads a block whose headword is empty or rejected by the arbiter
ReadsOrphan ==
    /\ blk_idx' = blk_idx + 1
    /\ \/ norm(blocks_out[blk_idx'].headword_guess) = <<>>
       \/ looks_probably_english_headword(norm(blocks_out[blk_idx'].headword_guess))

\* C5: a block whose headword is empty or rejected by the arbiter adds no
\* entry; when an entry has been accepted before it, its normalized lines
\* are appended to the raw lines of the entry accepted last, whose headword
\* and whose predecessors stay as they are, and exactly one
\* merged_continuation issue is written; when none has, exactly one
\* dropped_orphan_block issue is written and the entries stay empty.
C5_OrphanMergedOrDropped ==
    [][ ReadsOrphan =>
          /\ Len(entries') = Len(entries)
          /\ Len(issues') = Len(issues) + 1
          /\ SubSeq(issues', 1, Len(issues)) = issues
          /\ IF entries # <<>>
             THEN /\ issues'[Len(issues')].type = "merged_continuation"
                  /\ issues'[Len(issues')].into_headword = entries[Len(entries)].headword
                  /\ entries'[Len(entries)].raw
                        = entries[Len(entries)].raw
                          \o raw_lines_of(blocks_out[blk_idx'].lines)
                  /\ entries'[Len(entries)].headword = entries[Len(entries)].headword
                  /\ SubSeq(entries', 1, Len(entries) - 1)
                        = SubSeq(entries, 1, Len(entries) - 1)
             ELSE /\ issues'[Len(issues')].type = "dropped_orphan_block"
                  /\ issues'[Len(issues')].block = blocks_out[blk_idx']
                  /\ entries' = <<>>
      ]_vars

\* an orphan was dropped before any entry, and a later orphan (rejected by the
\* arbiter, with lines of its own) was merged into the one entry accepted
C5_Witness ==
    /\ Len(entries) = 1
    /\ Len(issues) = 2
    /\ issues[1].type = "dropped_orphan_block"
    /\ issues[2].type = "merged_continuation"
    /\ issues[2].dropped_headword # <<>>
    /\ Len(entries[1].raw) >= 2

\* C6: when segmentation and the repair pass are over, every candidate the
\* arbiter rejected during segmentation is the dropped headword of a
\* merged_continuation issue.
C6_RejectionsLogged ==
    pc = "repaired" =>
        \A i \in 1..Len(printed) :
            \E j \in 1..Len(issues) :
                /\ issues[j].type = "merged_continuation"
                /\ issues[j].dropped_headword = printed[i]


\* the step reads a block that is not an orphan
ReadsAccepted == blk_idx' = blk_idx + 1 /\ ~ReadsOrphan

\* t is a single token of the target language's shape
SingleTargetToken(t) ==
    /\ t # <<>>
    /\ \A i \in 1..Len(t) : t[i] # " "
    /\ BEJA_TOKEN_RE(t)

\* the conditions of the missing-prefix repair, for the entry e of a block
\* read while the entries are es
RepairConditions(e, es) ==
    /\ es # <<>>
    /\ SingleTargetToken(e.headword)
    /\ \E i \in 1..Len(e.pos) : e.pos[i] = Str("Phr")
    /\ es[Len(es)].headword # <<>>
    /\ \A i \in 1..Len(es[Len(es)].headword) : es[Len(es)].headword[i] # " "
    /\ e.source.page = es[Len(es)].source.page
    /\ e.source.start_line = es[Len(es)].source.end_line + 1
    /\ \/ e.regions = <<>>
       \/ es[Len(es)].regions = <<>>
       \/ e.regions = es[Len(es)].regions

\* what C16 asks of a step that accepts the entry e as new
RepairedOnlyWhenDue(e, new) ==
    /\ new.headword # e.headword
         => /\ RepairConditions(e, entries)
            /\ new.headword = entries[Len(entries)].headword \o <<" ">> \o e.headword
            /\ Len(issues') = Len(issues) + 1
            /\ SubSeq(issues', 1, Len(issues)) = issues
            /\ issues'[Len(issues')].type = "repaired_subentry_prefix"
            /\ issues'[Len(issues')].new_headword = new.headword
    /\ ~RepairConditions(e, entries) => new = e /\ issues' = issues
    /\ new.headword = e.headword => issues' = issues

RefreshedFields == {"gloss_en", "gloss_ar", "pos", "gender", "number", "class", "regions"}

\* the entry extracted again from the lines of new, under the headword and the
\* regions of old
ExtractedAgain(old, new) ==
    parse_block_to_entry(
        [headword_guess |-> old.headword, lines |-> new.raw, page |-> old.source.page,
         start_line |-> old.source.start_line, end_line |-> old.source.end_line,
         regions_guess |-> old.regions])

\* what C25 asks of the entry old that becomes new when the lines of the
\* orphan block are merged into it
MergeFrame(old, new, lines) ==
    /\ new.headword = old.headword
    /\ new.headword_parts = old.headword_parts
    /\ new.source = old.source
    /\ new.raw = old.raw \o SelectSeq(Tup([i \in 1..Len(lines) |-> norm(lines[i])]),
                                      LAMBDA l : l # <<>>)
    /\ \A k \in RefreshedFields :
          /\ old[k] # None => new[k] # None
          /\ new[k] # old[k] =>
                /\ ExtractedAgain(old, new)[k] # None
                /\ new[k] = ExtractedAgain(old, new)[k]
    /\ new.nominalized_verb # old.nominalized_verb
          => new.nominalized_verb = ExtractedAgain(old, new).nominalized_verb

\* C25: a merge leaves the previous entry's headword, headword parts and
\* source as they are, appends the orphan's non-empty normalized lines to its
\* raw lines, and replaces a gloss or tag field only by a value extracted again
\* that is not null: a field that is not null never becomes null
C25_MergeFrame ==
    [][ (ReadsOrphan /\ entries # <<>>)
          => /\ Len(entries') = Len(entries)
             /\ MergeFrame(entries[Len(entries)], entries'[Len(entries)],
                           blocks_out[blk_idx'].lines)
      ]_vars

\* an orphan was merged into an entry whose English gloss, null when extracted
\* again from the merged lines, was kept, and whose Arabic gloss was replaced
C25_Witness ==
    /\ entries # <<>>
    /\ issues # <<>>
    /\ issues[Len(issues)].type = "merged_continuation"
    /\ blk_idx >= 2
    /\ Len(entries[Len(entries)].raw) = 2
    /\ entries[Len(entries)].gloss_en = <<Str("custom")>>
    /\ entries[Len(entries)].gloss_ar # None
    /\ ExtractedAgain(entries[Len(entries)], entries[Len(entries)]).gloss_en = None

\* the conditions of the missing-prefix repair other than the one on regions,
\* for the entry e of a block read while the entries are es
OtherRepairConditions(e, es) ==
    /\ es # <<>>
    /\ SingleTargetToken(e.headword)
    /\ e.pos = <<Str("Phr")>>
    /\ SingleTargetToken(es[Len(es)].headword)
    /\ e.source.page = es[Len(es)].source.page
    /\ e.source.start_line = es[Len(es)].source.end_line + 1

\* both entries carry region codes, and not the same set of them
RegionSetsDiffer(e, prev) ==
    /\ e.regions # <<>>
    /\ prev.regions # <<>>
    /\ Range(e.regions) # Range(prev.regions)

\* C26: when every other condition of the missing-prefix repair holds, the
\* repair is refused exactly when both entries carry region codes and the two
\* sets of codes differ; the order the codes were collected in plays no part
C26_RegionsAsSets ==
    [][ (ReadsAccepted /\ OtherRepairConditions(parse_block_to_entry(blocks_out[blk_idx']), entries))
          => (entries'[Len(entries')].headword = parse_block_to_entry(blocks_out[blk_idx']).headword
                <=> RegionSetsDiffer(parse_block_to_entry(blocks_out[blk_idx']),
                                     entries[Len(entries)]))
      ]_vars

\* the issues of the log of the given type
IssuesOfType(t) == {j \in 1..Len(issues) : issues[j].type = t}

\* the blocks read so far whose headword is present and accepted by the
\* arbiter, in the order of the block file
AcceptedBlocks ==
    SortedSeq({b \in 1..blk_idx :
                  /\ norm(blocks_out[b].headword_guess) # <<>>
                  /\ ~looks_probably_english_headword(norm(blocks_out[b].headword_guess))})

\* the entry e was made from the block b
EntryOfBlock(e, b) ==
    /\ e.source = [page |-> b.page, start_line |-> b.start_line, end_line |-> b.end_line]
    /\ Len(e.raw) >= Len(raw_lines_of(b.lines))
    /\ SubSeq(e.raw, 1, Len(raw_lines_of(b.lines))) = raw_lines_of(b.lines)
    /\ e.headword_parts[1][Len(e.headword_parts[1])] = norm(b.headword_guess)

\* each block read has given one entry, one merged_continuation issue or one
\* dropped_orphan_block issue, and the entries are those of the accepted
\* blocks, in the order of the block file
OneOutcomePerBlock ==
    /\ Len(entries) + Cardinality(IssuesOfType("merged_continuation"))
         + Cardinality(IssuesOfType("dropped_orphan_block")) = blk_idx
    /\ Len(entries) = Len(AcceptedBlocks)
    /\ \A i \in 1..Len(entries) : EntryOfBlock(entries[i], blocks_out[AcceptedBlocks[i]])

\* a step that reads a block adds one entry and no orphan issue, or no entry
\* and one orphan issue
OneOutcomeStep ==
    blk_idx' = blk_idx + 1 =>
        \/ /\ Len(entries') = Len(entries) + 1
           /\ \A j \in (Len(issues) + 1)..Len(issues') :
                 issues'[j].type \notin {"merged_continuation", "dropped_orphan_block"}
        \/ /\ Len(entries') = Len(entries)
           /\ Len(issues') = Len(issues) + 1
           /\ issues'[Len(issues')].type \in {"merged_continuation", "dropped_orphan_block"}

\* C31: every block the repair pass reads gives exactly one outcome, a new
\* entry, a merged_continuation issue or a dropped_orphan_block issue; their
\* numbers add up to the blocks read, each entry comes from one accepted block
\* and the entries stand in the order of their blocks
C31_OneOutcomePerBlock == []OneOutcomePerBlock /\ [][OneOutcomeStep]_vars

\* three blocks were read: one dropped, one accepted, one merged
C31_Witness ==
    /\ pc = "repaired"
    /\ blk_idx = 3
    /\ Len(entries) = 1
    /\ Cardinality(IssuesOfType("merged_continuation")) = 1
    /\ Cardinality(IssuesOfType("dropped_orphan_block")) = 1

----------------------------------------------------------------------------
(* Properties of the order validator *)

\* the place of a letter in the alphabet
LetterIndex(c) == CHOOSE i \in 1..Len(LowerSeq) : LowerSeq[i] = c

\* the line number of the last kept entry, 0 when nothing is kept
LastKeptLine == IF kept = <<>> THEN 0 ELSE kept[Len(kept)].source.line_index

\* the records rejected since the last acceptance, as the error log shows them
RejectRun == {i \in 1..Len(errors_out) : errors_out[i].line_index > LastKeptLine}

\* those of them rejected for the order of their initial
JumpRun == {i \in RejectRun : errors_out[i].error = "implausible_letter_jump"}

\* the text of the record a step has read, taken from the output it was
\* added to
ReadText == IF kept' # kept THEN kept'[Len(kept')].raw ELSE errors_out'[Len(errors_out')].raw_text

\* the texts that pass the plausibility checks, as read and as normalized
PlausibleTexts ==
    UNION {{t, ov_norm(t)} : t \in {x \in OVTexts : parse_line_to_entry(ov_rec(x, 1)).err = None}}

\* the initial of the first token of each of them
TextInitial == [t \in PlausibleTexts |-> first_initial(extract_headword(t)[1])]

\* a step reads a record that passes the plausibility checks
ReadsPlausible ==
    /\ Len(kept') + Len(errors_out') = ov_read + 1
    /\ ReadText \in PlausibleTexts

\* the initial of the plausible record a step reads
ReadInitial == TextInitial[ReadText]

\* the initial c is that of the anchor or the letter after it
InOrder(c) ==
    \/ LetterIndex(c) = LetterIndex(last_initial[1])
    \/ LetterIndex(c) = LetterIndex(last_initial[1]) + 1

\* C7 as stated: no run of more than RESYNC_AFTER consecutive rejected
\* records occurs without an acceptance
C7_RejectRunBounded == Cardinality(RejectRun) <= RESYNC_AFTER

\* C7: among the records rejected since the last acceptance at most
\* RESYNC_AFTER are rejected as implausible_letter_jump, and once an anchor
\* exists and consecutive_rejects has reached RESYNC_AFTER the next record that
\* passes the plausibility checks is kept whatever its initial, becomes the
\* anchor and resets the counter; records failing the plausibility checks are
\* rejected without limit
C7_ResyncBound ==
    /\ [](Cardinality(JumpRun) <= RESYNC_AFTER)
    /\ [][(ReadsPlausible /\ last_initial # None /\ consecutive_rejects >= RESYNC_AFTER)
            => /\ Len(kept') = Len(kept) + 1
               /\ errors_out' = errors_out
               /\ last_initial' = ReadInitial
               /\ last_good_entry' = Some(kept'[Len(kept')])
               /\ consecutive_rejects' = 0]_vars

\* an entry out of order was kept by the resync, after RESYNC_AFTER rejections
C7_Witness ==
    /\ Len(kept) = 2
    /\ kept[2].source.line_index = kept[1].source.line_index + RESYNC_AFTER + 1
    /\ LetterIndex(kept[2].headword[1]) < LetterIndex(kept[1].headword[1])
    /\ Cardinality({i \in 1..Len(errors_out) :
                       errors_out[i].error = "implausible_letter_jump"}) >= 1

\* C8: with an anchor and consecutive_rejects below RESYNC_AFTER, a plausible
\* record is kept only if its initial is last_initial or the letter after it;
\* with any other initial it is logged as implausible_letter_jump, not kept,
\* consecutive_rejects grows by one and last_initial stays
C8_LetterOrder ==
    [][(ReadsPlausible /\ last_initial # None /\ consecutive_rejects < RESYNC_AFTER)
        => IF InOrder(ReadInitial[1])
           THEN /\ Len(kept') = Len(kept) + 1
                /\ errors_out' = errors_out
           ELSE /\ kept' = kept
                /\ Len(errors_out') = Len(errors_out) + 1
                /\ errors_out'[Len(errors_out')].error = "implausible_letter_jump"
                /\ consecutive_rejects' = consecutive_rejects + 1
                /\ last_initial' = last_initial]_vars

\* the letter after the anchor's was kept and a record out of order was then
\* rejected
C8_Witness ==
    /\ Len(kept) = 2
    /\ LetterIndex(kept[2].headword[1]) = LetterIndex(kept[1].headword[1]) + 1
    /\ \E i \in 1..Len(errors_out) :
          /\ errors_out[i].error = "implausible_letter_jump"
          /\ errors_out[i].line_index > kept[2].source.line_index
          /\ consecutive_rejects = Len(errors_out)

\* a step reads a record
ReadsRecord == Len(kept') + Len(errors_out') = ov_read + 1

\* C28: once consecutive_rejects has reached RESYNC_AFTER, the next record
\* that passes the plausibility checks is kept whatever its initial, which
\* becomes last_initial, and consecutive_rejects becomes 0; every acceptance
\* resets consecutive_rejects to 0
C28_ResyncAccepts ==
    [][ /\ (ReadsPlausible /\ consecutive_rejects >= RESYNC_AFTER)
            => /\ kept' = Append(kept, kept'[Len(kept')])
               /\ kept'[Len(kept')].raw = ReadText
               /\ errors_out' = errors_out
               /\ last_initial' = ReadInitial
               /\ consecutive_rejects' = 0
        /\ (ReadsRecord /\ Len(kept') > Len(kept)) => consecutive_rejects' = 0
      ]_vars

\* after an anchor, RESYNC_AFTER records or more were rejected, some of them
\* by the plausibility checks, and the next plausible record was kept although
\* its initial is not the anchor's nor the letter after it
C28_Witness ==
    /\ Len(kept) = 2
    /\ consecutive_rejects = 0
    /\ Len(errors_out) >= RESYNC_AFTER
    /\ \A i \in 1..Len(errors_out) :
          /\ errors_out[i].line_index > kept[1].source.line_index
          /\ errors_out[i].line_index < kept[2].source.line_index
    /\ \E i \in 1..Len(errors_out) : errors_out[i].error # "implausible_letter_jump"
    /\ LetterIndex(kept[2].headword[1]) # LetterIndex(kept[1].headword[1])
    /\ LetterIndex(kept[2].headword[1]) # LetterIndex(kept[1].headword[1]) + 1

\* C29: a record rejected by the plausibility checks leaves
\* consecutive_rejects as it is: only implausible-letter-jump rejections
\* advance the validator toward the resync
C29_OnlyJumpsCount ==
    [][ (ReadsRecord /\ ReadText \notin PlausibleTexts)
          => consecutive_rejects' = consecutive_rejects
      ]_vars

\* the initial of the k-th kept entry
KeptInitial(k) == LetterIndex(kept[k].headword[1])

\* C30 as stated: the initial of each kept entry is never earlier in the
\* alphabet than the initial of the entry kept before it
C30_KeptMonotone ==
    \A k \in 1..(Len(kept) - 1) : KeptInitial(k + 1) >= KeptInitial(k)

\* C30: the initial of each kept entry is that of the entry kept before it or
\* the letter after it, unless RESYNC_AFTER records or more were rejected
\* between the two
C30_MonotoneUnlessResync ==
    \A k \in 1..(Len(kept) - 1) :
        \/ KeptInitial(k + 1) \in {KeptInitial(k), KeptInitial(k) + 1}
        \/ kept[k + 1].source.line_index > kept[k].source.line_index + RESYNC_AFTER

\* two entries were kept in order with rejected records between them, fewer
\* than RESYNC_AFTER
C30_Witness ==
    /\ Len(kept) = 2
    /\ KeptInitial(2) = KeptInitial(1) + 1
    /\ kept[2].source.line_index > kept[1].source.line_index + 1
    /\ kept[2].source.line_index <= kept[1].source.line_index + RESYNC_AFTER

\* the records rejected as implausible_letter_jump whose line comes after
\* line lo and before line hi
JumpsBetween(lo, hi) ==
    {i \in 1..Len(errors_out) :
        /\ errors_out[i].error = "implausible_letter_jump"
        /\ errors_out[i].line_index > lo
        /\ errors_out[i].line_index < hi}

\* the line of the acceptance that follows the k-th one, or a line past the
\* last record read when the k-th is the last
NextKeptLine(k) == IF k < Len(kept) THEN kept[k + 1].source.line_index ELSE ov_read + 1

\* C36: between two consecutive acceptances, and after the last one, at most
\* RESYNC_AFTER records are rejected as implausible_letter_jump, whatever the
\* number of records the plausibility checks reject among them; a record is
\* rejected so only while consecutive_rejects is below RESYNC_AFTER
C36_JumpsBetweenAcceptances ==
    /\ [](\A k \in 1..Len(kept) :
             Cardinality(JumpsBetween(kept[k].source.line_index, NextKeptLine(k)))
                 <= RESYNC_AFTER)
    /\ [][(/\ Len(errors_out') = Len(errors_out) + 1
           /\ errors_out'[Len(errors_out')].error = "implausible_letter_jump")
             => consecutive_rejects < RESYNC_AFTER /\ last_initial # None]_vars

\* two acceptances with rejections of both kinds between them, as many for
\* the letter order as the rule lets through before the resync
C36_Witness ==
    /\ Len(kept) = 2
    /\ \E i \in 1..Len(errors_out) :
          /\ errors_out[i].error # "implausible_letter_jump"
          /\ errors_out[i].line_index > kept[1].source.line_index
          /\ errors_out[i].line_index < kept[2].source.line_index
    /\ Cardinality(JumpsBetween(kept[1].source.line_index, kept[2].source.line_index))
           = RESYNC_AFTER - 1

\* the lines of the records read so far that were kept, and those logged
KeptLines == {kept[k].source.line_index : k \in 1..Len(kept)}
LoggedLines == {errors_out[i].line_index : i \in 1..Len(errors_out)}

\* the step reads one record and gives it one outcome
OneOutcome ==
    \/ /\ Len(kept') = Len(kept) + 1
       /\ SubSeq(kept', 1, Len(kept)) = kept
       /\ kept'[Len(kept')].source.line_index = ov_read + 1
       /\ errors_out' = errors_out
    \/ /\ Len(errors_out') = Len(errors_out) + 1
       /\ SubSeq(errors_out', 1, Len(errors_out)) = errors_out
       /\ errors_out'[Len(errors_out')].line_index = ov_read + 1
       /\ kept' = kept

\* C37: every record read is kept or logged once as an error, never both and
\* never neither, and the kept entries stand in the order of the input
C37_OneOutcomeInOrder ==
    /\ [](/\ KeptLines \cup LoggedLines = 1..ov_read
          /\ KeptLines \cap LoggedLines = {}
          /\ Cardinality(KeptLines) = Len(kept)
          /\ Cardinality(LoggedLines) = Len(errors_out)
          /\ \A k \in 1..(Len(kept) - 1) :
                kept[k].source.line_index < kept[k + 1].source.line_index)
    /\ [][pc' = pc => OneOutcome]_vars

\* records of every outcome were read: two kept, one of them by the resync,
\* some rejected by the plausibility checks and some for the letter order
C37_Witness ==
    /\ Len(kept) = 2
    /\ ov_read = MaxRecs
    /\ kept[1].source.line_index > 1
    /\ kept[2].source.line_index < MaxRecs
    /\ \E i, j \in 1..Len(errors_out) :
          /\ errors_out[i].error = "implausible_letter_jump"
          /\ errors_out[j].error \notin {"implausible_letter_jump"}

----------------------------------------------------------------------------
(* Properties of the arbiters *)

\* the token shows an orthographic signal: a doubled vowel, an apostrophe or
\* the suffix /t, whatever the case of its letters
HasSignal(tok) ==
    \/ \E i \in 1..(Len(tok) - 1) :
          /\ py_lower_char(tok[i]) \in {"a", "i", "u", "o", "e"}
          /\ py_lower_char(tok[i + 1]) = py_lower_char(tok[i])
    \/ \E i \in 1..Len(tok) : tok[i] = "'"
    \/ /\ Len(tok) >= 2
       /\ tok[Len(tok) - 1] = "/"
       /\ tok[Len(tok)] \in {"t", "T"}

\* the tokens of a candidate: its runs of characters other than the space
CandidateTokens == py_split(candidate)

\* C9: a candidate in which some token shows an orthographic signal is
\* rejected as gloss text by neither arbiter, whatever the commonness of its
\* tokens
C9_SignalNeverRejected ==
    (\E i \in 1..Len(CandidateTokens) : HasSignal(CandidateTokens[i]))
        => englishy # Some(TRUE) /\ probably_english # Some(TRUE)

\* both arbiters have accepted a candidate of two tokens, one a very common
\* English word without a signal, the other a very common English word with one
C9_Witness ==
    /\ englishy = Some(FALSE)
    /\ probably_english = Some(FALSE)
    /\ Len(CandidateTokens) = 2
    /\ \E i, j \in 1..Len(CandidateTokens) :
          /\ HasSignal(CandidateTokens[i])
          /\ english_strength_score(CandidateTokens[i]) >= 50
          /\ ~HasSignal(CandidateTokens[j])
          /\ english_strength_score(CandidateTokens[j]) >= 50

\* the tokens of the candidate that are common gloss words: commonness at or
\* above the common-word threshold of 4.5
CommonTokens ==
    {i \in 1..Len(CandidateTokens) : english_strength_score(CandidateTokens[i]) >= 45}

\* C15: a candidate of several tokens, more than half of them common gloss
\* words and none with an orthographic signal, is rejected by both arbiters
C15_MajorityRejected ==
    (/\ Len(CandidateTokens) >= 2
     /\ 2 * Cardinality(CommonTokens) > Len(CandidateTokens)
     /\ \A i \in 1..Len(CandidateTokens) : ~HasSignal(CandidateTokens[i]))
        => englishy # Some(FALSE) /\ probably_english # Some(FALSE)

\* C39: the two arbiters are one decision: once both have answered for a
\* candidate, is_englishy_headword and looks_probably_english_headword have
\* given the same verdict
C39_SameVerdict ==
    (englishy # None /\ probably_english # None) => englishy = probably_english

\* both arbiters have rejected a candidate of two tokens on the rule for
\* fairly common words alone: both tokens are at 4.5 or more, none is at 5.0,
\* and one of them carries punctuation and capitals
C39_Witness ==
    /\ englishy = Some(TRUE)
    /\ probably_english = Some(TRUE)
    /\ Len(CandidateTokens) = 2
    /\ CandidateTokens[1] # CandidateTokens[2]
    /\ \A i \in 1..2 : english_strength_score(CandidateTokens[i]) \in 45..49
    /\ \E i \in 1..2 : py_lower(CandidateTokens[i]) # CandidateTokens[i]

----------------------------------------------------------------------------
(* Properties of the segmenter followed by the repair pass *)

\* the fields of a line between its delimiters, without the blanks around them
StarFields(l) ==
    Tup([k \in 1..Len(py_split_on(l, "*")) |-> py_strip(py_split_on(l, "*")[k], Whitespace)])

\* the tokens that are tags of an entry
TagTokens == POS_TOKENS \cup REGION_TOKENS \cup CLASS_TOKENS \cup GENDER_TOKENS \cup NUMBER_TOKENS

\* h is one target-shaped token that is not excluded and that both arbiters accept
AcceptedHeadToken(h) ==
    /\ BEJA_TOKEN_RE(h)
    /\ h \notin NEVER_HEADWORDS
    /\ ~is_englishy_headword(h)
    /\ ~looks_probably_english_headword(h)

\* g is a gloss in the primary script: words of Latin letters, none of them a tag
PrimaryGloss(g) ==
    /\ g # <<>>
    /\ \A i \in 1..Len(g) : g[i] \in Lower \cup Upper \cup {" "}
    /\ \A i \in 1..Len(py_split(g)) : py_split(g)[i] \notin TagTokens

\* the line is 'h * g * R'
SimpleEntryLine(l) ==
    /\ Len(StarFields(l)) = 3
    /\ AcceptedHeadToken(StarFields(l)[1])
    /\ PrimaryGloss(StarFields(l)[2])
    /\ StarFields(l)[3] \in REGION_TOKENS

\* the input was the single page of the single line l and both passes are over
OnlyLine(l) == pc = "repaired" /\ pages = << <<l>> >>

\* C11: a page of the single line 'h * g * R' yields exactly one entry, with
\* headword h, primary translations [g], regions [R] and source lines 1 to 1
C11_SimpleEntry ==
    (pc = "repaired" /\ Len(pages) = 1 /\ Len(pages[1]) = 1 /\ SimpleEntryLine(pages[1][1]))
        => /\ Len(entries) = 1
           /\ entries[1].headword = StarFields(pages[1][1])[1]
           /\ entries[1].gloss_en = <<StarFields(pages[1][1])[2]>>
           /\ entries[1].regions = <<StarFields(pages[1][1])[3]>>
           /\ entries[1].source.page = 1
           /\ entries[1].source.start_line = 1
           /\ entries[1].source.end_line = 1

\* the page of the single line "aab * water * Er" has gone through both passes
C11_Witness ==
    /\ OnlyLine(Str("aab * water * Er"))
    /\ SimpleEntryLine(pages[1][1])
    /\ Len(entries) = 1

\* the page holds the two lines l1 and l2 and both passes are over
TwoLines(l1, l2) == pc = "repaired" /\ Len(pages) >= 1 /\ pages[1] = <<l1, l2>>

\* C12: the digit-prefixed line '22 daatiya * going' right after the block of
\* 'aada * custom' yields an entry with the headword 'aada daatiya'
C12_PrefixRestored ==
    TwoLines(Str("aada * custom"), Str("22 daatiya * going"))
        => \E i \in 1..Len(entries) : entries[i].headword = Str("aada daatiya")

\* C13: an entry that has a headword and no translation in either script is
\* among the entries, and a missing_gloss issue records it
C13_MissingGlossLogged ==
    pc = "repaired" =>
        \A i \in 1..Len(entries) :
            (entries[i].headword # <<>> /\ entries[i].gloss_en = None /\ entries[i].gloss_ar = None)
                => \E j \in 1..Len(issues) : issues[j].type = "missing_gloss"

\* every token of the field is a tag or a sign that stands for one
OnlyTagTokens(f) ==
    /\ normalize_tokens(re_split(f, Whitespace)) # <<>>
    /\ \A i \in 1..Len(normalize_tokens(re_split(f, Whitespace))) :
          normalize_tokens(re_split(f, Whitespace))[i] \in TagLikeTokens

\* the fields after the first, among those of the lines of a block, that hold
\* Latin letters and are not made of tags only
LatinFields(lines) ==
    SelectSeq(Tail(tokenize_star_text(raw_lines_of(lines))),
              LAMBDA f : LATIN_RE(f) /\ ~OnlyTagTokens(f))

\* C27: the primary translations of an entry are the fields after the first
\* that hold Latin letters and are not made of tag tokens only, in field order
\* and without duplicates: no such field is left out
C27_LatinFieldsKept ==
    [][ (ReadsAccepted /\ tokenize_star_text(raw_lines_of(blocks_out[blk_idx'].lines)) # <<>>)
          => entries'[Len(entries')].gloss_en = gloss_dedupe(LatinFields(blocks_out[blk_idx'].lines))
      ]_vars

\* the number of whitespace-separated tokens of a headword
HeadwordTokens(e) == Len(py_split(e.headword))

\* a step accepts an entry and logs a repaired_subentry_prefix issue for it
AcceptsRepaired ==
    /\ Len(entries') = Len(entries) + 1
    /\ Len(issues') = Len(issues) + 1
    /\ issues'[Len(issues')].type = "repaired_subentry_prefix"

\* C33: every entry of the segmenter followed by the repair pass has a
\* headword of one to three tokens; a headword rewritten by the missing-prefix
\* repair has exactly two tokens, and no later step changes the headword of an
\* entry already accepted
C33_HeadwordTokenCount ==
    /\ [](\A i \in 1..Len(entries) : HeadwordTokens(entries[i]) \in 1..3)
    /\ [][ /\ AcceptsRepaired => HeadwordTokens(entries'[Len(entries')]) = 2
           /\ \A i \in 1..Len(entries) :
                 Len(entries') >= i /\ entries'[i].headword = entries[i].headword
         ]_vars

\* a sub-entry had its prefix restored, and the sub-entry on the next line,
\* which met every other condition, was accepted with its own headword
C33_Witness ==
    /\ pc = "repaired"
    /\ Len(entries) = 3
    /\ HeadwordTokens(entries[2]) = 2
    /\ issues # <<>>
    /\ issues[1].type = "repaired_subentry_prefix"
    /\ issues[1].new_headword = entries[2].headword
    /\ entries[3].pos = <<Str("Phr")>>
    /\ entries[3].source.start_line = entries[2].source.end_line + 1
    /\ HeadwordTokens(entries[3]) = 1
    /\ Len(issues) = 1

\* a head zone of four tokens gave a headword of three
C33_CapReached ==
    \E i \in 1..Len(entries) :
        /\ HeadwordTokens(entries[i]) = 3
        /\ Len(py_split(py_split_once(entries[i].raw[1], "*")[1])) = 4

\* the repair pass arbiter accepts the headword guess of the block: it is
\* not empty once normalized, and it does not look like gloss text
RepairAcceptsGuess(b) ==
    /\ b.headword_guess # <<>>
    /\ norm(b.headword_guess) # <<>>
    /\ ~looks_probably_english_headword(norm(b.headword_guess))

\* C35: every block the v5 segmenter writes has a headword guess that is not
\* empty and that the arbiter of the repair pass accepts, so the repair pass
\* run on these blocks logs no merged_continuation and no
\* dropped_orphan_block issue
C35_NoOrphanFromV5 ==
    /\ \A j \in 1..Len(blocks_out) : RepairAcceptsGuess(blocks_out[j])
    /\ IssuesOfType("merged_continuation") = {}
    /\ IssuesOfType("dropped_orphan_block") = {}

\* the segmenter's arbiter turned a candidate down, the two blocks written
\* became two entries, and one of them has a headword with a very common
\* English word in it that shows an orthographic signal
C35_Witness ==
    /\ pc = "repaired"
    /\ printed # <<>>
    /\ Len(blocks_out) = 2
    /\ Len(entries) = 2
    /\ \E j \in 1..2 :
          \E t \in Range(py_split(blocks_out[j].headword_guess)) :
              english_strength_score(t) >= 50
----------------------------------------------------------------------------
(* Properties of the line repairs and of the headword parser *)

\* C21: the text the hard-excluded, region-only and entry-start rules look at
\* never begins with a digit
C21_NoLeadingDigit ==
    line_fixed # None => (line_fixed[1] = <<>> \/ line_fixed[1][1] \notin Digit)

\* the whitespace tokens before the first delimiter of the repaired line
ZoneTokens == py_split(py_split_once(line_fixed[1], "*")[1])

\* the token has the target language's shape and is not hard-excluded
TargetShaped(t) == BEJA_TOKEN_RE(t) /\ t \notin NEVER_HEADWORDS

\* the length of the longest prefix of toks made of such tokens only
ShapedLen(toks) ==
    SetMax({k \in 0..Len(toks) : \A i \in 1..k : TargetShaped(toks[i])})

\* that prefix cut to three tokens, with a space between them
ShapedPrefix(toks) ==
    py_join(SubSeq(toks, 1, IF ShapedLen(toks) > 3 THEN 3 ELSE ShapedLen(toks)), " ")

\* C22: a headword returned by parse_multiword_headword is the longest prefix
\* of target-shaped, not excluded tokens of the head zone, cut to three tokens;
\* nothing is returned when the head zone is empty, when its first token fails
\* the shape test or is excluded, or when the arbiter rejects the candidate
C22_HeadwordIsShapedPrefix ==
    (line_hw # None /\ py_contains(line_fixed[1], "*"))
        => /\ line_hw[1].ret # None => line_hw[1].ret[1] = ShapedPrefix(ZoneTokens)
           /\ (\/ ZoneTokens = <<>>
               \/ ~TargetShaped(ZoneTokens[1])
               \/ is_englishy_headword(ShapedPrefix(ZoneTokens)))
                  => line_hw[1].ret = None

\* the lines of the model as the parser is given them
FixedLines(texts) ==
    {v5_fix_line(normalize_line(l)) : l \in {x \in texts : ~should_ignore_line(normalize_line(x))}}

\* the parser returns for the line l the last good headword h, a space and
\* the first token of the head zone
RepairsPrefix(l, h) ==
    /\ head_zone_toks(l) # <<>>
    /\ parse_multiword_headword(l, h) = Some(h[1] \o <<" ">> \o head_zone_toks(l)[1])

\* C32: there are a line and a non-empty last good headword for which
\* parse_multiword_headword returns the last good headword, a space and the
\* first token of the line's head zone
C32_CanRepairPrefix ==
    pc = "line" => \E l \in FixedLines(LineTexts(MaxDigitRuns, MaxHead)) :
        \E h \in LastGoods \ {None} : RepairsPrefix(l, h)

----------------------------------------------------------------------------
(* Properties of the English-to-Beja blocker *)

\* the normalized lines the pages of the model are made of, and which of
\* them the loop skips as bare line numbers
EBLines == {EBNorm[raw] : raw \in EBRawLines}
EBIsNumber == [n \in EBLines |-> is_line_number(n)]
EBRegionOnly == [n \in EBLines |-> is_region_only_line(n)]
EBStripped == [n \in EBLines |-> strip_leading_number(n)]

\* the blocks the run holds: open, pending or written
EBHeld ==
    Len(blocks_out) + (IF current # None THEN 1 ELSE 0) + (IF last_flushed # None THEN 1 ELSE 0)

\* the step reads a line of the page
ReadsLine == pc = "eb_inpage" /\ pc' = "eb_inpage" /\ ln_idx' = ln_idx + 1

\* the step opens a block: after it a block that starts on the line read is
\* open, pending or written
OpensBlock ==
    /\ ReadsLine
    /\ \/ current' # None /\ current'[1].start_line = ln_idx'
       \/ last_flushed' # None /\ last_flushed'[1].start_line = ln_idx'
             /\ last_flushed' # last_flushed
       \/ /\ Len(blocks_out') > Len(blocks_out)
          /\ blocks_out'[Len(blocks_out')].page = page_num
          /\ blocks_out'[Len(blocks_out')].start_line = ln_idx'

\* the lines of page p from line start to line end that the loop does not
\* skip, the first of them without its leading number
EBKeptIdx(p, start, end) == SortedSeq({i \in start..end : ~EBIsNumber[pages[p][i]]})
EBRangeLines(p, start, end) ==
    [k \in 1..Len(EBKeptIdx(p, start, end)) |->
        IF k = 1 THEN EBStripped[pages[p][EBKeptIdx(p, start, end)[k]]]
        ELSE pages[p][EBKeptIdx(p, start, end)[k]]]

\* a written block holds every line appended to it: the lines of its page
\* from its start to its end, or to the end of the page when end_line is 0
WrittenWhole(b) ==
    /\ b.start_line >= 1
    /\ b.end_line = 0 \/ b.end_line >= b.start_line
    /\ b.lines = EBRangeLines(b.page, b.start_line,
                              IF b.end_line = 0 THEN Len(pages[b.page]) ELSE b.end_line)

\* the pending block leaves the slot written as it is, or with the region-only
\* line just read as its last line and its end moved to that line
PendingWritten ==
    /\ Len(blocks_out') > Len(blocks_out)
    /\ \/ blocks_out'[Len(blocks_out) + 1] = last_flushed[1]
       \/ /\ ReadsLine
          /\ EBRegionOnly[pages'[page_num][ln_idx']]
          /\ blocks_out'[Len(blocks_out) + 1] =
                 [last_flushed[1] EXCEPT !.lines = Append(@, pages'[page_num][ln_idx']),
                                         !.end_line = ln_idx']

\* what a step of the blocker does to the blocks it holds
EBStep ==
    /\ SubSeq(blocks_out', 1, Len(blocks_out)) = blocks_out
    /\ EBHeld' = EBHeld + (IF OpensBlock THEN 1 ELSE 0)
    /\ (last_flushed # None /\ last_flushed' # last_flushed) => PendingWritten
    /\ (last_flushed # None /\ OpensBlock) => blocks_out'[Len(blocks_out) + 1] = last_flushed[1]
    /\ (last_flushed' # None /\ last_flushed' # last_flushed) =>
          /\ current # None \/ OpensBlock
          /\ current' = None
          /\ current # None =>
                /\ last_flushed = None
                /\ last_flushed'[1].start_line = current[1].start_line
                /\ SubSeq(last_flushed'[1].lines, 1, Len(current[1].lines)) = current[1].lines
    /\ (current # None /\ current' # current) =>
          \/ /\ current' # None
             /\ current'[1].start_line = current[1].start_line
             /\ current'[1].lines = Append(current[1].lines, pages'[page_num][ln_idx'])
          \/ /\ current' = None /\ last_flushed' # None
             /\ last_flushed'[1].start_line = current[1].start_line
          \/ /\ current' = None /\ pc' = "eb_between"
             /\ blocks_out'[Len(blocks_out')].start_line = current[1].start_line
             /\ blocks_out'[Len(blocks_out')].lines = current[1].lines
             /\ blocks_out'[Len(blocks_out')].end_line = 0

\* C38: every block the English-to-Beja blocker opens is written once, with
\* every line appended to it: no block is open while another is pending, so
\* flush finds the pending slot empty; a pending block is written, as it is
\* or with the one region-only line that follows it, before the next block is
\* opened and at the latest when its page ends; no step loses a block
C38_OpenedWrittenOnce ==
    /\ [](/\ ~(current # None /\ last_flushed # None)
          /\ pc \in {"eb_between", "eb_done"} => current = None /\ last_flushed = None
          /\ \A j \in 1..Len(blocks_out) : WrittenWhole(blocks_out[j])
          /\ \A j, k \in 1..Len(blocks_out) :
                (/\ blocks_out[j].page = blocks_out[k].page
                 /\ blocks_out[j].start_line = blocks_out[k].start_line) => j = k)
    /\ [][EBStep]_vars

\* a block with a region code was put aside, a bare line number was skipped, a
\* region-only line was attached to the pending block, which was written; the
\* next block stayed open to the end of the page and was written there
C38_Witness ==
    /\ pc = "eb_between"
    /\ Len(blocks_out) = 2
    /\ blocks_out[1].start_line = 1
    /\ blocks_out[1].end_line = 3
    /\ Len(blocks_out[1].lines) = 2
    /\ blocks_out[1].lines[1] # pages[1][1]
    /\ EBIsNumber[pages[1][2]]
    /\ EBRegionOnly[blocks_out[1].lines[2]]
    /\ blocks_out[2].page = 1
    /\ blocks_out[2].start_line = 4
    /\ blocks_out[2].end_line = 0
====
